---- MODULE Spec2Model ----
(***************************************************************************)
(* MEWallet backend: the balance-link ledger (transaction_routes.py), the   *)
(* request workflows (balance_request_routes.py, link_request_routes.py,    *)
(* pay_request_routes.py) and the WebSocket registry                        *)
(* (core/websocket_manager.py), and the account deletion of                 *)
(* routes/user_routes.py.                                                   *)
(*                                                                          *)
(* The store (Supabase tables) is a set of rows per table.  A handler is a  *)
(* sequence of store calls; each store call is one atomic step and handlers *)
(* of different in-flight HTTP calls interleave between store calls.  The   *)
(* first step of a handler ("_begin") is the arrival of the call together   *)
(* with everything up to and including its first store read.                *)
(*                                                                          *)
(* Amounts are integers.  The store never fails and has no uniqueness       *)
(* constraint (the source declares none).  The status = "active" filter of  *)
(* the pay-request link reads, the display columns (store_name, user_name)  *)
(* and the slowapi rate limits are left out.                                *)
(***************************************************************************)
EXTENDS Integers, Sequences, FiniteSets, TLC

VARIABLES
    merchants,              \* table merchants: ids of the rows
    users,                  \* table users: ids of the rows
    merchant_user_links,    \* table merchant_user_links: set of rows
    transactions,           \* table transactions: rows in insertion order
    balance_requests,       \* table balance_requests: set of rows
    link_requests,          \* table link_requests: set of rows
    pay_requests,           \* table pay_requests: set of rows
    reminders,              \* table reminders: set of rows
    next_id,                \* next surrogate id of each table
    background_tasks,       \* scheduled delete_*_after_delay tasks
    merchant_connections,   \* ConnectionManager.merchant_connections
    user_connections,       \* ConnectionManager.user_connections
    sent,                   \* messages delivered on channels, in order
    otp_storage,            \* otp_routes.py otp_storage: phone -> stored OTP
    calls,                  \* the in-flight / last finished call of each slot
    ncalls,                 \* number of HTTP calls that have arrived
    env                     \* what the callers of this run may send

db == <<merchants, users, merchant_user_links, transactions,
        balance_requests, link_requests, pay_requests, reminders, next_id>>
registry == <<merchant_connections, user_connections>>
vars == <<merchants, users, merchant_user_links, transactions,
          balance_requests, link_requests, pay_requests, reminders, next_id,
          background_tasks, merchant_connections, user_connections, sent,
          otp_storage, calls, ncalls, env>>

---------------------------------------------------------------------------
(* Bounds of the model *)

\* HTTP calls that arrive in one run
MaxCalls == 4
\* largest amount a caller sends
MaxAmount == 2

\* slots for concurrently handled HTTP calls
Procs == {"p1", "p2"}
\* PINs callers type
Pins == {"1234", "9999"}
\* WebSocket objects
Channels == {"ws1", "ws2"}

---------------------------------------------------------------------------
(* Values *)

\* an otp_storage without entries
NoOtp == <<>>

NoRow == [id |-> 0]
NoResp == [code |-> 0, detail |-> "-"]
Resp(code, detail) == [code |-> code, detail |-> detail]

NoCall ==
    [op |-> "idle", pc |-> "idle", tok |-> "none", merchant_id |-> "-",
     user_id |-> "-", pin |-> "-", amount |-> 0, request_id |-> 0,
     req_data |-> NoRow, link |-> NoRow, new_balance |-> 0, link_id |-> 0,
     message |-> "none", reminder_date |-> "none", status |-> "none",
     index |-> 0, disconnected |-> <<>>, resp |-> NoResp]

\* a faulty hash_password: it returns the secret as it was given
hash_password_identity(password) == [scheme |-> "plain", secret |-> password]

\* core/utils.py hash_password: bcrypt digest of the secret (salt abstracted)
hash_password(password) == [scheme |-> "bcrypt", secret |-> password]

\* a column that holds the string as it was sent, not a digest
plain_text(s) == [scheme |-> "plain", secret |-> s]

\* core/utils.py verify_password / bcrypt.checkpw: "true", "false", or
\* "raise" when the secret is None or the stored value is no bcrypt digest
verify_password(plain_password, hashed_password) ==
    IF plain_password = "none" THEN "raise"
    ELSE IF hashed_password.scheme # "bcrypt" THEN "raise"
    ELSE IF hashed_password.secret = plain_password THEN "true"
    ELSE "false"

\* core/utils.py verify_token: the payload's sub, or "none" for a token
\* that does not decode
verify_token(tok) == IF tok \in {"none", "bad"} THEN "none" ELSE tok

\* select("*").eq("merchant_id", m).eq("user_id", u) on merchant_user_links.
\* The credential of a row is its field pin: transaction_routes.py and the
\* balance- and link-request routes read and write the column "pin",
\* pay_request_routes.py reads it as "pin_hash"; no schema is part of the
\* source, so the two names stand for the one credential of the row.
\* a faulty link select: it finds no row
LinksOf_nothing(m, u) == {}

LinksOf(m, u) ==
    {l \in merchant_user_links : l.merchant_id = m /\ l.user_id = u}

Idle(p) == calls[p].pc \in {"idle", "done"}

\* a call arrives on a free slot
Arrive(p) ==
    /\ p \in env.workers
    /\ Idle(p)
    /\ ncalls < MaxCalls
    /\ ncalls' = ncalls + 1

Finish(c, code, detail) ==
    [c EXCEPT !.pc = "done", !.resp = Resp(code, detail)]

New(op, tok, m, u, pin, amount, rid) ==
    [NoCall EXCEPT !.op = op, !.tok = tok, !.merchant_id = m, !.user_id = u,
                   !.pin = pin, !.amount = amount, !.request_id = rid]

---------------------------------------------------------------------------
(* transaction_routes.py *)

create_link_begin(p) ==
    /\ Arrive(p)
    /\ \E tok \in env.tokens, m \in env.merchant_ids, u \in env.user_ids,
          pin \in env.pins :
        LET c == New("create_link", tok, m, u, pin, 0, 0) IN
        calls' = [calls EXCEPT ![p] =
            IF m \notin merchants THEN Finish(c, 404, "Merchant not found")
            ELSE IF u \notin users THEN Finish(c, 404, "User not found")
            ELSE IF LinksOf(m, u) # {} THEN Finish(c, 400, "AlreadyLinked")
            ELSE [c EXCEPT !.pc = "insert"]]
    /\ UNCHANGED <<otp_storage, db, background_tasks, registry, sent, env>>

create_link_insert(p) ==
    /\ calls[p].op = "create_link" /\ calls[p].pc = "insert"
    /\ merchant_user_links' = merchant_user_links \cup
           {[id |-> next_id.links, merchant_id |-> calls[p].merchant_id,
             user_id |-> calls[p].user_id,
             pin |-> hash_password(calls[p].pin), balance |-> 0]}
    /\ next_id' = [next_id EXCEPT !.links = @ + 1]
    /\ calls' = [calls EXCEPT ![p] = Finish(@, 201, "Link created")]
    /\ UNCHANGED <<otp_storage, merchants, reminders, users, transactions, balance_requests,
                   link_requests, pay_requests, background_tasks, registry,
                   sent, ncalls, env>>

create_link(p) == create_link_begin(p) \/ create_link_insert(p)

delink_merchant_begin(p) ==
    /\ Arrive(p)
    /\ \E tok \in env.tokens, m \in env.merchant_ids, u \in env.user_ids,
          pin \in env.pins :
        LET c == New("delink_merchant", tok, m, u, pin, 0, 0) IN
        \/ /\ LinksOf(m, u) = {}
           /\ calls' = [calls EXCEPT ![p] = Finish(c, 404, "No link found")]
        \/ \E link_record \in LinksOf(m, u) :
             LET v == verify_password(pin, link_record.pin) IN
             calls' = [calls EXCEPT ![p] =
                 IF v = "raise" THEN Finish(c, 500, "Internal")
                 ELSE IF v = "false" THEN Finish(c, 401, "InvalidPin")
                 ELSE [c EXCEPT !.pc = "delete", !.link = link_record]]
    /\ UNCHANGED <<otp_storage, db, background_tasks, registry, sent, env>>

delink_merchant_delete(p) ==
    /\ calls[p].op = "delink_merchant" /\ calls[p].pc = "delete"
    /\ merchant_user_links' =
           {l \in merchant_user_links : l.id # calls[p].link.id}
    /\ calls' = [calls EXCEPT ![p] = Finish(@, 200, "Successfully delinked")]
    /\ UNCHANGED <<otp_storage, merchants, reminders, users, transactions, balance_requests,
                   link_requests, pay_requests, next_id, background_tasks,
                   registry, sent, ncalls, env>>

delink_merchant(p) == delink_merchant_begin(p) \/ delink_merchant_delete(p)

\* the credit / debit handlers after their link read: PIN check, then (for a
\* debit) the balance check, then the new balance they will write
add_balance_begin(p) ==
    /\ Arrive(p)
    /\ \E tok \in env.tokens, m \in env.merchant_ids, u \in env.user_ids,
          pin \in env.pins \cup {"none"}, amount \in 1..MaxAmount :
        LET c == New("add_balance", tok, m, u, pin, amount, 0) IN
        \/ /\ LinksOf(m, u) = {}
           /\ calls' = [calls EXCEPT ![p] = Finish(c, 404, "No link found")]
        \/ \E link_data \in LinksOf(m, u) :
             LET v == verify_password(pin, link_data.pin) IN
             calls' = [calls EXCEPT ![p] =
                 IF v = "raise" THEN Finish(c, 500, "Internal")
                 ELSE IF v = "false" THEN Finish(c, 401, "InvalidPin")
                 ELSE [c EXCEPT !.pc = "update", !.link = link_data,
                                !.new_balance = link_data.balance + amount]]
    /\ UNCHANGED <<otp_storage, db, background_tasks, registry, sent, env>>

\* a faulty update: it writes nothing
UpdateBalanceById_nothing(id, new_balance) == merchant_user_links

\* update({"balance": new_balance}).eq("id", id): the rows it returns
UpdateBalanceById(id, new_balance) ==
    {IF l.id = id THEN [l EXCEPT !.balance = new_balance] ELSE l :
        l \in merchant_user_links}

add_balance_update(p) ==
    /\ calls[p].op = "add_balance" /\ calls[p].pc = "update"
    /\ merchant_user_links' =
           UpdateBalanceById(calls[p].link.id, calls[p].new_balance)
    /\ calls' = [calls EXCEPT ![p] =
           IF \E l \in merchant_user_links : l.id = calls[p].link.id
           THEN [@ EXCEPT !.pc = "insert_txn"]
           ELSE Finish(@, 500, "Failed to update balance")]
    /\ UNCHANGED <<otp_storage, merchants, reminders, users, transactions, balance_requests,
                   link_requests, pay_requests, next_id, background_tasks,
                   registry, sent, ncalls, env>>

\* a faulty transaction row: balance_after holds the balance before a credit
Txn_balance_before(m, u, amount, type, balance_after) ==
    [merchant_id |-> m, user_id |-> u, amount |-> amount,
     transaction_type |-> type, balance_after |-> balance_after - amount]

Txn(m, u, amount, type, balance_after) ==
    [merchant_id |-> m, user_id |-> u, amount |-> amount,
     transaction_type |-> type, balance_after |-> balance_after]

add_balance_insert_txn(p) ==
    /\ calls[p].op = "add_balance" /\ calls[p].pc = "insert_txn"
    /\ transactions' =
           Append(transactions,
                  Txn(calls[p].merchant_id, calls[p].user_id, calls[p].amount,
                      "credit", calls[p].new_balance))
    /\ calls' = [calls EXCEPT ![p] = Finish(@, 200, "Balance added")]
    /\ UNCHANGED <<otp_storage, merchants, reminders,
                   users, merchant_user_links, balance_requests,
                   link_requests, pay_requests, next_id, background_tasks,
                   registry, sent, ncalls, env>>

add_balance(p) ==
    add_balance_begin(p) \/ add_balance_update(p) \/ add_balance_insert_txn(p)

\* a faulty failure path: it writes the balance the handler had read back
\* to the Link
add_balance_insert_txn_raises_rollback(p) ==
    /\ calls[p].op = "add_balance" /\ calls[p].pc = "insert_txn"
    /\ merchant_user_links' =
           UpdateBalanceById(calls[p].link.id, calls[p].link.balance)
    /\ calls' = [calls EXCEPT ![p] = Finish(@, 500, "Internal")]
    /\ UNCHANGED <<otp_storage, merchants, reminders, users, transactions, balance_requests,
                   link_requests, pay_requests, next_id, background_tasks,
                   registry, sent, ncalls, env>>

\* the insert of the Transaction fails: execute() raises, no row is written,
\* "except Exception" answers 500 and nothing undoes the balance write
add_balance_insert_txn_raises(p) ==
    /\ calls[p].op = "add_balance" /\ calls[p].pc = "insert_txn"
    /\ calls' = [calls EXCEPT ![p] = Finish(@, 500, "Internal")]
    /\ UNCHANGED <<otp_storage, db, background_tasks, registry, sent, ncalls, env>>

\* a faulty balance check: every amount passes
insufficient_balance_never(balance, amount) == FALSE

\* the balance check of process_purchase and accept_pay_request
insufficient_balance(balance, amount) == balance < amount

process_purchase_begin(p) ==
    /\ Arrive(p)
    /\ \E tok \in env.tokens, m \in env.merchant_ids, u \in env.user_ids,
          pin \in env.pins, amount \in 1..MaxAmount :
        LET c == New("process_purchase", tok, m, u, pin, amount, 0) IN
        \/ /\ LinksOf(m, u) = {}
           /\ calls' = [calls EXCEPT ![p] = Finish(c, 404, "No link found")]
        \/ \E link_data \in LinksOf(m, u) :
             LET v == verify_password(pin, link_data.pin) IN
             calls' = [calls EXCEPT ![p] =
                 IF v = "raise" THEN Finish(c, 500, "Internal")
                 ELSE IF v = "false" THEN Finish(c, 401, "InvalidPin")
                 ELSE IF insufficient_balance(link_data.balance, amount)
                      THEN Finish([c EXCEPT !.link = link_data],
                                  400, "InsufficientBalance")
                 ELSE [c EXCEPT !.pc = "update", !.link = link_data,
                                !.new_balance = link_data.balance - amount]]
    /\ UNCHANGED <<otp_storage, db, background_tasks, registry, sent, env>>

process_purchase_update(p) ==
    /\ calls[p].op = "process_purchase" /\ calls[p].pc = "update"
    /\ merchant_user_links' =
           UpdateBalanceById(calls[p].link.id, calls[p].new_balance)
    /\ calls' = [calls EXCEPT ![p] =
           IF \E l \in merchant_user_links : l.id = calls[p].link.id
           THEN [@ EXCEPT !.pc = "insert_txn"]
           ELSE Finish(@, 500, "Failed to process transaction")]
    /\ UNCHANGED <<otp_storage, merchants, reminders, users, transactions, balance_requests,
                   link_requests, pay_requests, next_id, background_tasks,
                   registry, sent, ncalls, env>>

process_purchase_insert_txn(p) ==
    /\ calls[p].op = "process_purchase" /\ calls[p].pc = "insert_txn"
    /\ transactions' =
           Append(transactions,
                  Txn(calls[p].merchant_id, calls[p].user_id, calls[p].amount,
                      "debit", calls[p].new_balance))
    /\ calls' = [calls EXCEPT ![p] = Finish(@, 200, "Purchase successful")]
    /\ UNCHANGED <<otp_storage, merchants, reminders,
                   users, merchant_user_links, balance_requests,
                   link_requests, pay_requests, next_id, background_tasks,
                   registry, sent, ncalls, env>>

process_purchase(p) ==
    \/ process_purchase_begin(p)
    \/ process_purchase_update(p)
    \/ process_purchase_insert_txn(p)

\* the insert of the Transaction of a purchase fails in the same way
process_purchase_insert_txn_raises(p) ==
    /\ calls[p].op = "process_purchase" /\ calls[p].pc = "insert_txn"
    /\ calls' = [calls EXCEPT ![p] = Finish(@, 500, "Internal")]
    /\ UNCHANGED <<otp_storage, db, background_tasks, registry, sent, ncalls, env>>

\* GET /link/balance: the balance of the first row of the pair, one of these
\* values (none: 404)
get_balance(m, u) == {l.balance : l \in LinksOf(m, u)}

---------------------------------------------------------------------------
(* balance_request_routes.py *)

\* a faulty status test: it stops a rejected request only
already_processed_only_rejected(row) == row.status = "rejected"

\* the status test of every accept and reject handler
already_processed(row) == row.status # "pending"

PendingOf(table, m, u) ==
    {r \in table : r.merchant_id = m /\ r.user_id = u /\ r.status = "pending"}

\* a faulty status update: it reopens a request that is settled
SetStatus_reopens(table, id, s) ==
    {IF r.id = id
     THEN [r EXCEPT !.status = IF @ = "pending" THEN s ELSE "pending"]
     ELSE r : r \in table}

\* update({"status": s}).eq("id", id)
SetStatus(table, id, s) ==
    {IF r.id = id THEN [r EXCEPT !.status = s] ELSE r : r \in table}

create_balance_request_begin(p) ==
    /\ Arrive(p)
    /\ \E tok \in env.tokens, m \in env.merchant_ids, u \in env.user_ids,
          pin \in env.pins, amount \in 1..MaxAmount :
        LET c == New("create_balance_request", tok, m, u, pin, amount, 0) IN
        calls' = [calls EXCEPT ![p] =
            IF m \notin merchants THEN Finish(c, 404, "Merchant not found")
            ELSE IF u \notin users THEN Finish(c, 404, "User not found")
            ELSE IF PendingOf(balance_requests, m, u) # {}
                 THEN Finish(c, 400, "DuplicatePending")
            ELSE [c EXCEPT !.pc = "insert"]]
    /\ UNCHANGED <<otp_storage, db, background_tasks, registry, sent, env>>

create_balance_request_insert(p) ==
    /\ calls[p].op = "create_balance_request" /\ calls[p].pc = "insert"
    /\ balance_requests' = balance_requests \cup
           {[id |-> next_id.balance_requests,
             merchant_id |-> calls[p].merchant_id,
             user_id |-> calls[p].user_id, amount |-> calls[p].amount,
             pin |-> calls[p].pin, status |-> "pending"]}
    /\ next_id' = [next_id EXCEPT !.balance_requests = @ + 1]
    /\ calls' = [calls EXCEPT ![p] =
           Finish([@ EXCEPT !.request_id = next_id.balance_requests],
                  201, "Balance request sent")]
    /\ UNCHANGED <<otp_storage, merchants, reminders,
                   users, merchant_user_links, transactions,
                   link_requests, pay_requests, background_tasks, registry,
                   sent, ncalls, env>>

create_balance_request(p) ==
    create_balance_request_begin(p) \/ create_balance_request_insert(p)

accept_balance_request_begin(p) ==
    /\ Arrive(p)
    /\ \E tok \in env.tokens, rid \in 1..next_id.balance_requests :
        LET c == New("accept_balance_request", tok, "-", "-", "-", 0, rid)
            found == {r \in balance_requests : r.id = rid} IN
        \/ /\ found = {}
           /\ calls' = [calls EXCEPT ![p] = Finish(c, 404, "NotFound")]
        \/ \E req_data \in found :
             calls' = [calls EXCEPT ![p] =
                 IF already_processed(req_data)
                 THEN Finish(c, 400, "AlreadyProcessed")
                 ELSE [c EXCEPT !.pc = "select_link",
                                !.req_data = req_data]]
    /\ UNCHANGED <<otp_storage, db, background_tasks, registry, sent, env>>

accept_balance_request_select_link(p) ==
    /\ calls[p].op = "accept_balance_request" /\ calls[p].pc = "select_link"
    /\ LET req_data == calls[p].req_data
           found == LinksOf(req_data.merchant_id, req_data.user_id) IN
        \/ /\ found = {}
           /\ calls' = [calls EXCEPT ![p] =
                  [@ EXCEPT !.pc = "insert_link",
                            !.new_balance = req_data.amount]]
        \/ \E link_data \in found :
             calls' = [calls EXCEPT ![p] =
                 [@ EXCEPT !.pc = "update_link", !.link = link_data,
                           !.new_balance =
                               link_data.balance + req_data.amount]]
    /\ UNCHANGED <<otp_storage, db, background_tasks, registry, sent, ncalls, env>>

accept_balance_request_update_link(p) ==
    /\ calls[p].op = "accept_balance_request" /\ calls[p].pc = "update_link"
    /\ merchant_user_links' =
           UpdateBalanceById(calls[p].link.id, calls[p].new_balance)
    /\ calls' = [calls EXCEPT ![p] = [@ EXCEPT !.pc = "insert_txn"]]
    /\ UNCHANGED <<otp_storage, merchants, reminders, users, transactions, balance_requests,
                   link_requests, pay_requests, next_id, background_tasks,
                   registry, sent, ncalls, env>>

accept_balance_request_insert_link(p) ==
    /\ calls[p].op = "accept_balance_request" /\ calls[p].pc = "insert_link"
    /\ merchant_user_links' = merchant_user_links \cup
           {[id |-> next_id.links,
             merchant_id |-> calls[p].req_data.merchant_id,
             user_id |-> calls[p].req_data.user_id,
             pin |-> plain_text(calls[p].req_data.pin),
             balance |-> calls[p].new_balance]}
    /\ next_id' = [next_id EXCEPT !.links = @ + 1]
    /\ calls' = [calls EXCEPT ![p] = [@ EXCEPT !.pc = "insert_txn"]]
    /\ UNCHANGED <<otp_storage, merchants, reminders, users, transactions, balance_requests,
                   link_requests, pay_requests, background_tasks, registry,
                   sent, ncalls, env>>

accept_balance_request_insert_txn(p) ==
    /\ calls[p].op = "accept_balance_request" /\ calls[p].pc = "insert_txn"
    /\ transactions' =
           Append(transactions,
                  Txn(calls[p].req_data.merchant_id, calls[p].req_data.user_id,
                      calls[p].req_data.amount, "credit",
                      calls[p].new_balance))
    /\ calls' = [calls EXCEPT ![p] = [@ EXCEPT !.pc = "update_status"]]
    /\ UNCHANGED <<otp_storage, merchants, reminders,
                   users, merchant_user_links, balance_requests,
                   link_requests, pay_requests, next_id, background_tasks,
                   registry, sent, ncalls, env>>

accept_balance_request_update_status(p) ==
    /\ calls[p].op = "accept_balance_request" /\ calls[p].pc = "update_status"
    /\ balance_requests' =
           SetStatus(balance_requests, calls[p].request_id, "accepted")
    /\ background_tasks' = background_tasks \cup
           {[table |-> "balance_requests", id |-> calls[p].request_id]}
    /\ calls' = [calls EXCEPT ![p] = Finish(@, 200, "Balance request accepted")]
    /\ UNCHANGED <<otp_storage, merchants, reminders,
                   users, merchant_user_links, transactions,
                   link_requests, pay_requests, next_id, registry, sent,
                   ncalls, env>>

accept_balance_request(p) ==
    \/ accept_balance_request_begin(p)
    \/ accept_balance_request_select_link(p)
    \/ accept_balance_request_update_link(p)
    \/ accept_balance_request_insert_link(p)
    \/ accept_balance_request_insert_txn(p)
    \/ accept_balance_request_update_status(p)

reject_balance_request_begin(p) ==
    /\ Arrive(p)
    /\ \E tok \in env.tokens, rid \in 1..next_id.balance_requests :
        LET c == New("reject_balance_request", tok, "-", "-", "-", 0, rid)
            found == {r \in balance_requests : r.id = rid} IN
        \/ /\ found = {}
           /\ calls' = [calls EXCEPT ![p] = Finish(c, 404, "NotFound")]
        \/ \E req_data \in found :
             calls' = [calls EXCEPT ![p] =
                 IF already_processed(req_data)
                 THEN Finish(c, 400, "AlreadyProcessed")
                 ELSE [c EXCEPT !.pc = "update_status",
                                !.req_data = req_data]]
    /\ UNCHANGED <<otp_storage, db, background_tasks, registry, sent, env>>

reject_balance_request_update_status(p) ==
    /\ calls[p].op = "reject_balance_request" /\ calls[p].pc = "update_status"
    /\ balance_requests' =
           SetStatus(balance_requests, calls[p].request_id, "rejected")
    /\ background_tasks' = background_tasks \cup
           {[table |-> "balance_requests", id |-> calls[p].request_id]}
    /\ calls' = [calls EXCEPT ![p] = Finish(@, 200, "Balance request rejected")]
    /\ UNCHANGED <<otp_storage, merchants, reminders,
                   users, merchant_user_links, transactions,
                   link_requests, pay_requests, next_id, registry, sent,
                   ncalls, env>>

reject_balance_request(p) ==
    reject_balance_request_begin(p) \/ reject_balance_request_update_status(p)

\* a faulty task: it ends without its delete
delete_request_after_delay_no_delete ==
    \E t \in background_tasks :
        /\ t.table = "balance_requests"
        /\ background_tasks' = background_tasks \ {t}
        /\ UNCHANGED <<otp_storage, db, registry, sent, calls, ncalls, env>>

\* the background task, once its sleep is over
delete_request_after_delay ==
    \E t \in background_tasks :
        /\ t.table = "balance_requests"
        /\ background_tasks' = background_tasks \ {t}
        /\ balance_requests' = {r \in balance_requests : r.id # t.id}
        /\ UNCHANGED <<otp_storage, merchants, reminders,
                       users, merchant_user_links, transactions,
                       link_requests, pay_requests, next_id, registry, sent,
                       calls, ncalls, env>>

---------------------------------------------------------------------------
(* routes/link_request_routes.py *)

\* middleware/auth_middleware.py get_current_user: 401 unless the header
\* carries a token that decodes
get_current_user(tok) == IF verify_token(tok) = "none" THEN 401 ELSE 200

\* a faulty arrival: it does not look for a link of the pair
create_link_request_begin_no_link_check(p) ==
    /\ Arrive(p)
    /\ \E tok \in env.tokens, m \in env.merchant_ids, u \in env.user_ids,
          pin \in env.pins :
        LET c == New("create_link_request", tok, m, u, pin, 0, 0) IN
        calls' = [calls EXCEPT ![p] =
            IF get_current_user(tok) = 401 THEN Finish(c, 401, "Unauthorized")
            ELSE IF m \notin merchants THEN Finish(c, 404, "Merchant not found")
            ELSE IF u \notin users THEN Finish(c, 404, "User not found")
            ELSE [c EXCEPT !.pc = "select_pending"]]
    /\ UNCHANGED <<otp_storage, db, background_tasks, registry, sent, env>>

\* POST /link-requests/create up to the read of the pair's links
create_link_request_begin(p) ==
    /\ Arrive(p)
    /\ \E tok \in env.tokens, m \in env.merchant_ids, u \in env.user_ids,
          pin \in env.pins :
        LET c == New("create_link_request", tok, m, u, pin, 0, 0) IN
        calls' = [calls EXCEPT ![p] =
            IF get_current_user(tok) = 401 THEN Finish(c, 401, "Unauthorized")
            ELSE IF m \notin merchants THEN Finish(c, 404, "Merchant not found")
            ELSE IF u \notin users THEN Finish(c, 404, "User not found")
            ELSE IF LinksOf(m, u) # {} THEN Finish(c, 400, "AlreadyLinked")
            ELSE [c EXCEPT !.pc = "select_pending"]]
    /\ UNCHANGED <<otp_storage, db, background_tasks, registry, sent, env>>

create_link_request_select_pending(p) ==
    /\ calls[p].op = "create_link_request" /\ calls[p].pc = "select_pending"
    /\ calls' = [calls EXCEPT ![p] =
           IF PendingOf(link_requests, @.merchant_id, @.user_id) # {}
           THEN Finish(@, 400, "DuplicatePending")
           ELSE [@ EXCEPT !.pc = "insert"]]
    /\ UNCHANGED <<otp_storage, db, background_tasks, registry, sent, ncalls, env>>

create_link_request_insert(p) ==
    /\ calls[p].op = "create_link_request" /\ calls[p].pc = "insert"
    /\ link_requests' = link_requests \cup
           {[id |-> next_id.link_requests,
             merchant_id |-> calls[p].merchant_id,
             user_id |-> calls[p].user_id,
             pin |-> calls[p].pin, status |-> "pending"]}
    /\ next_id' = [next_id EXCEPT !.link_requests = @ + 1]
    /\ calls' = [calls EXCEPT ![p] =
           Finish([@ EXCEPT !.request_id = next_id.link_requests],
                  201, "Link request sent")]
    /\ UNCHANGED <<otp_storage, merchants, reminders,
                   users, merchant_user_links, transactions,
                   balance_requests, pay_requests, background_tasks, registry,
                   sent, ncalls, env>>

create_link_request(p) ==
    \/ create_link_request_begin(p)
    \/ create_link_request_select_pending(p)
    \/ create_link_request_insert(p)

accept_link_request_begin(p) ==
    /\ Arrive(p)
    /\ \E tok \in env.tokens, rid \in 1..next_id.link_requests :
        LET c == New("accept_link_request", tok, "-", "-", "-", 0, rid)
            found == {r \in link_requests : r.id = rid} IN
        \/ /\ get_current_user(tok) = 401
           /\ calls' = [calls EXCEPT ![p] = Finish(c, 401, "Unauthorized")]
        \/ /\ get_current_user(tok) # 401
           /\ found = {}
           /\ calls' = [calls EXCEPT ![p] = Finish(c, 404, "NotFound")]
        \/ /\ get_current_user(tok) # 401
           /\ \E req_data \in found :
                calls' = [calls EXCEPT ![p] =
                    IF already_processed(req_data)
                    THEN Finish(c, 400, "AlreadyProcessed")
                    ELSE [c EXCEPT !.pc = "select_link",
                                   !.req_data = req_data]]
    /\ UNCHANGED <<otp_storage, db, background_tasks, registry, sent, env>>

accept_link_request_select_link(p) ==
    /\ calls[p].op = "accept_link_request" /\ calls[p].pc = "select_link"
    /\ LET req_data == calls[p].req_data
           found == LinksOf(req_data.merchant_id, req_data.user_id) IN
        \/ /\ found = {}
           /\ calls' = [calls EXCEPT ![p] = [@ EXCEPT !.pc = "insert_link"]]
        \/ \E existing_link \in found :
             calls' = [calls EXCEPT ![p] =
                 [@ EXCEPT !.pc = "update_status", !.link = existing_link]]
    /\ UNCHANGED <<otp_storage, db, background_tasks, registry, sent, ncalls, env>>

accept_link_request_insert_link(p) ==
    /\ calls[p].op = "accept_link_request" /\ calls[p].pc = "insert_link"
    /\ merchant_user_links' = merchant_user_links \cup
           {[id |-> next_id.links,
             merchant_id |-> calls[p].req_data.merchant_id,
             user_id |-> calls[p].req_data.user_id,
             pin |-> hash_password(calls[p].req_data.pin),
             balance |-> 0]}
    /\ next_id' = [next_id EXCEPT !.links = @ + 1]
    /\ calls' = [calls EXCEPT ![p] = [@ EXCEPT !.pc = "update_status"]]
    /\ UNCHANGED <<otp_storage, merchants, reminders, users, transactions, balance_requests,
                   link_requests, pay_requests, background_tasks, registry,
                   sent, ncalls, env>>

\* both branches end alike: status accepted, purge scheduled, 200
accept_link_request_update_status(p) ==
    /\ calls[p].op = "accept_link_request" /\ calls[p].pc = "update_status"
    /\ link_requests' =
           SetStatus(link_requests, calls[p].request_id, "accepted")
    /\ background_tasks' = background_tasks \cup
           {[table |-> "link_requests", id |-> calls[p].request_id]}
    /\ calls' = [calls EXCEPT ![p] =
           IF @.link # NoRow THEN Finish(@, 200, "Link already exists")
           ELSE Finish(@, 200, "Link request accepted")]
    /\ UNCHANGED <<otp_storage, merchants, reminders,
                   users, merchant_user_links, transactions,
                   balance_requests, pay_requests, next_id, registry, sent,
                   ncalls, env>>

accept_link_request(p) ==
    \/ accept_link_request_begin(p)
    \/ accept_link_request_select_link(p)
    \/ accept_link_request_insert_link(p)
    \/ accept_link_request_update_status(p)

reject_link_request_begin(p) ==
    /\ Arrive(p)
    /\ \E tok \in env.tokens, rid \in 1..next_id.link_requests :
        LET c == New("reject_link_request", tok, "-", "-", "-", 0, rid)
            found == {r \in link_requests : r.id = rid} IN
        \/ /\ get_current_user(tok) = 401
           /\ calls' = [calls EXCEPT ![p] = Finish(c, 401, "Unauthorized")]
        \/ /\ get_current_user(tok) # 401
           /\ found = {}
           /\ calls' = [calls EXCEPT ![p] = Finish(c, 404, "NotFound")]
        \/ /\ get_current_user(tok) # 401
           /\ \E req_data \in found :
                calls' = [calls EXCEPT ![p] =
                    IF already_processed(req_data)
                    THEN Finish(c, 400, "AlreadyProcessed")
                    ELSE [c EXCEPT !.pc = "update_status",
                                   !.req_data = req_data]]
    /\ UNCHANGED <<otp_storage, db, background_tasks, registry, sent, env>>

reject_link_request_update_status(p) ==
    /\ calls[p].op = "reject_link_request" /\ calls[p].pc = "update_status"
    /\ link_requests' =
           SetStatus(link_requests, calls[p].request_id, "rejected")
    /\ background_tasks' = background_tasks \cup
           {[table |-> "link_requests", id |-> calls[p].request_id]}
    /\ calls' = [calls EXCEPT ![p] = Finish(@, 200, "Link request rejected")]
    /\ UNCHANGED <<otp_storage, merchants, reminders,
                   users, merchant_user_links, transactions,
                   balance_requests, pay_requests, next_id, registry, sent,
                   ncalls, env>>

reject_link_request(p) ==
    reject_link_request_begin(p) \/ reject_link_request_update_status(p)

delete_link_request_after_delay ==
    \E t \in background_tasks :
        /\ t.table = "link_requests"
        /\ background_tasks' = background_tasks \ {t}
        /\ link_requests' = {r \in link_requests : r.id # t.id}
        /\ UNCHANGED <<otp_storage, merchants, reminders,
                       users, merchant_user_links, transactions,
                       balance_requests, pay_requests, next_id, registry,
                       sent, calls, ncalls, env>>

---------------------------------------------------------------------------
(* core/websocket_manager.py *)

Registered(conns) == UNION {{conns[k][i] : i \in DOMAIN conns[k]} : k \in DOMAIN conns}

\* a faulty removal: it keeps the entry of an identity without channels
RemoveChannel_keeps_entry(conns, id, ws) ==
    [conns EXCEPT ![id] = SelectSeq(conns[id], LAMBDA w : w # ws)]

\* list.remove(ws) followed by "del" of an emptied entry
RemoveChannel(conns, id, ws) ==
    LET rest == SelectSeq(conns[id], LAMBDA w : w # ws) IN
    IF rest = <<>> THEN [k \in DOMAIN conns \ {id} |-> conns[k]]
    ELSE [conns EXCEPT ![id] = rest]

AddChannel(conns, id, ws) ==
    [k \in DOMAIN conns \cup {id} |->
        IF k \in DOMAIN conns /\ k # id THEN conns[k]
        ELSE IF k \in DOMAIN conns THEN Append(conns[k], ws)
        ELSE <<ws>>]

connect ==
    \E ws \in env.channels \ (Registered(user_connections)
                          \cup Registered(merchant_connections)) :
        \/ \E user_id \in env.user_ids :
            /\ user_connections' = AddChannel(user_connections, user_id, ws)
            /\ UNCHANGED merchant_connections
        \/ \E merchant_id \in env.merchant_ids :
            /\ merchant_connections' =
                   AddChannel(merchant_connections, merchant_id, ws)
            /\ UNCHANGED user_connections
    /\ UNCHANGED <<otp_storage, db, background_tasks, sent, calls, ncalls, env>>

disconnect ==
    /\ \/ \E id \in DOMAIN user_connections :
            \E i \in DOMAIN user_connections[id] :
                /\ user_connections' =
                       RemoveChannel(user_connections, id,
                                     user_connections[id][i])
                /\ UNCHANGED merchant_connections
       \/ \E id \in DOMAIN merchant_connections :
            \E i \in DOMAIN merchant_connections[id] :
                /\ merchant_connections' =
                       RemoveChannel(merchant_connections, id,
                                     merchant_connections[id][i])
                /\ UNCHANGED user_connections
    /\ UNCHANGED <<otp_storage, db, background_tasks, sent, calls, ncalls, env>>

is_connected(conns, id) == id \in DOMAIN conns /\ Len(conns[id]) > 0

\* a faulty send: it makes an entry for an identity that has none
AfterSend_creates_entry(conns, id, failing) ==
    LET all == IF id \in DOMAIN conns THEN conns[id] ELSE <<>>
        rest == SelectSeq(all, LAMBDA w : w \notin failing) IN
    [k \in DOMAIN conns \cup {id} |-> IF k = id THEN rest ELSE conns[k]]

\* send_to_user / send_to_merchant: the channels of `failing` raise in
\* send_json and are disconnected after the loop; the others get the message
AfterSend(conns, id, failing) ==
    IF id \notin DOMAIN conns THEN conns
    ELSE LET rest == SelectSeq(conns[id], LAMBDA w : w \notin failing) IN
         IF rest = <<>> THEN [k \in DOMAIN conns \ {id} |-> conns[k]]
         ELSE [conns EXCEPT ![id] = rest]

\* a faulty send: the first channel that raises ends the loop
Delivered_until_failure(conns, id, failing, event) ==
    IF id \notin DOMAIN conns THEN <<>>
    ELSE LET bad == {i \in DOMAIN conns[id] : conns[id][i] \in failing}
             n == IF bad = {} THEN Len(conns[id])
                  ELSE (CHOOSE i \in bad : \A j \in bad : i <= j) - 1 IN
         [i \in 1..n |-> [ws |-> conns[id][i], to |-> id, event |-> event]]

Delivered(conns, id, failing, event) ==
    IF id \notin DOMAIN conns THEN <<>>
    ELSE LET ok == SelectSeq(conns[id], LAMBDA w : w \notin failing) IN
         [i \in DOMAIN ok |-> [ws |-> ok[i], to |-> id, event |-> event]]

\* send_to_user, one channel send at a time.  The for loop walks the list of
\* the identity itself, not a copy: each turn takes the element at the next
\* index of the list as it is at that moment, and "await send_json" lets
\* other coroutines run between two turns.  request_id numbers the message.
send_to_user(p) ==
    \/ /\ Arrive(p)
       /\ \E user_id \in env.user_ids :
            LET c == New("send_to_user", "none", "-", user_id, "-", 0,
                         ncalls + 1) IN
            calls' = [calls EXCEPT ![p] =
                IF user_id \in DOMAIN user_connections
                THEN [c EXCEPT !.pc = "loop"]
                ELSE Finish(c, 200, "returned")]
       /\ UNCHANGED <<otp_storage, db, background_tasks, registry, sent, env>>
    \/ /\ calls[p].op = "send_to_user" /\ calls[p].pc = "loop"
       /\ LET user_id == calls[p].user_id
              list == IF user_id \in DOMAIN user_connections
                      THEN user_connections[user_id] ELSE <<>>
              i == calls[p].index IN
          IF i < Len(list)
          THEN /\ \/ /\ sent' = Append(sent, [ws |-> list[i + 1],
                                              to |-> user_id,
                                              event |-> "message",
                                              id |-> calls[p].request_id])
                        /\ calls' = [calls EXCEPT ![p].index = i + 1]
                     \/ /\ sent' = sent
                        /\ calls' = [calls EXCEPT
                               ![p].index = i + 1,
                               ![p].disconnected = Append(@, list[i + 1])]
               /\ UNCHANGED registry
          ELSE /\ user_connections' =
                      AfterSend(user_connections, user_id,
                                {calls[p].disconnected[k] :
                                   k \in DOMAIN calls[p].disconnected})
               /\ calls' = [calls EXCEPT ![p] = Finish(@, 200, "returned")]
               /\ UNCHANGED <<merchant_connections, sent>>
       /\ UNCHANGED <<otp_storage, db, background_tasks, ncalls, env>>

\* send_to_merchant: the same loop over the merchant's list
send_to_merchant(p) ==
    \/ /\ Arrive(p)
       /\ \E merchant_id \in env.merchant_ids :
            LET c == New("send_to_merchant", "none", merchant_id, "-", "-", 0,
                         ncalls + 1) IN
            calls' = [calls EXCEPT ![p] =
                IF merchant_id \in DOMAIN merchant_connections
                THEN [c EXCEPT !.pc = "loop"]
                ELSE Finish(c, 200, "returned")]
       /\ UNCHANGED <<otp_storage, db, background_tasks, registry, sent, env>>
    \/ /\ calls[p].op = "send_to_merchant" /\ calls[p].pc = "loop"
       /\ LET merchant_id == calls[p].merchant_id
              list == IF merchant_id \in DOMAIN merchant_connections
                      THEN merchant_connections[merchant_id] ELSE <<>>
              i == calls[p].index IN
          IF i < Len(list)
          THEN /\ \/ /\ sent' = Append(sent, [ws |-> list[i + 1],
                                              to |-> merchant_id,
                                              event |-> "message",
                                              id |-> calls[p].request_id])
                        /\ calls' = [calls EXCEPT ![p].index = i + 1]
                     \/ /\ sent' = sent
                        /\ calls' = [calls EXCEPT
                               ![p].index = i + 1,
                               ![p].disconnected = Append(@, list[i + 1])]
               /\ UNCHANGED registry
          ELSE /\ merchant_connections' =
                      AfterSend(merchant_connections, merchant_id,
                                {calls[p].disconnected[k] :
                                   k \in DOMAIN calls[p].disconnected})
               /\ calls' = [calls EXCEPT ![p] = Finish(@, 200, "returned")]
               /\ UNCHANGED <<user_connections, sent>>
       /\ UNCHANGED <<otp_storage, db, background_tasks, ncalls, env>>

---------------------------------------------------------------------------
(* routes/pay_request_routes.py *)

\* the Authorization checks at the head of every pay-request handler
pay_auth(tok) ==
    IF tok = "none" THEN 401
    ELSE IF verify_token(tok) = "none" THEN 403
    ELSE 200

\* a faulty arrival: it does not look at the sign of the amount
create_pay_request_begin_no_amount_check(p) ==
    /\ Arrive(p)
    /\ \E tok \in env.tokens, m \in env.merchant_ids, u \in env.user_ids,
          amount \in 0..MaxAmount :
        LET c == New("create_pay_request", tok, m, u, "-", amount, 0) IN
        \/ /\ pay_auth(tok) # 200 \/ verify_token(tok) # m
              \/ LinksOf(m, u) = {}
           /\ calls' = [calls EXCEPT ![p] =
                  IF tok = "none" THEN Finish(c, 401, "Unauthorized")
                  ELSE IF verify_token(tok) = "none" \/ verify_token(tok) # m
                       THEN Finish(c, 403, "Forbidden")
                  ELSE Finish(c, 404, "Link not found")]
        \/ /\ pay_auth(tok) = 200 /\ verify_token(tok) = m
           /\ \E link \in LinksOf(m, u) :
                calls' = [calls EXCEPT ![p] =
                    IF insufficient_balance(link.balance, amount)
                    THEN Finish(c, 400, "InsufficientBalance")
                    ELSE [c EXCEPT !.pc = "insert", !.link = link]]
    /\ UNCHANGED <<otp_storage, db, background_tasks, registry, sent, env>>

\* POST /pay-requests/create up to the read of the pair's link
create_pay_request_begin(p) ==
    /\ Arrive(p)
    /\ \E tok \in env.tokens, m \in env.merchant_ids, u \in env.user_ids,
          amount \in 0..MaxAmount :
        LET c == New("create_pay_request", tok, m, u, "-", amount, 0) IN
        \/ /\ pay_auth(tok) # 200 \/ verify_token(tok) # m \/ amount <= 0
              \/ LinksOf(m, u) = {}
           /\ calls' = [calls EXCEPT ![p] =
                  IF tok = "none" THEN Finish(c, 401, "Unauthorized")
                  ELSE IF verify_token(tok) = "none" \/ verify_token(tok) # m
                       THEN Finish(c, 403, "Forbidden")
                  ELSE IF amount <= 0 THEN Finish(c, 400, "Amount must be positive")
                  ELSE Finish(c, 404, "Link not found")]
        \/ /\ pay_auth(tok) = 200 /\ verify_token(tok) = m /\ amount > 0
           /\ \E link \in LinksOf(m, u) :
                calls' = [calls EXCEPT ![p] =
                    IF insufficient_balance(link.balance, amount)
                    THEN Finish(c, 400, "InsufficientBalance")
                    ELSE [c EXCEPT !.pc = "insert", !.link = link]]
    /\ UNCHANGED <<otp_storage, db, background_tasks, registry, sent, env>>

create_pay_request_insert(p) ==
    /\ calls[p].op = "create_pay_request" /\ calls[p].pc = "insert"
    /\ pay_requests' = pay_requests \cup
           {[id |-> next_id.pay_requests,
             merchant_id |-> calls[p].merchant_id,
             user_id |-> calls[p].user_id, amount |-> calls[p].amount,
             status |-> "pending"]}
    /\ next_id' = [next_id EXCEPT !.pay_requests = @ + 1]
    /\ \E failing \in SUBSET Registered(user_connections) :
        /\ sent' = sent \o Delivered(user_connections, calls[p].user_id,
                                    failing, "payment_requested")
        /\ user_connections' =
               AfterSend(user_connections, calls[p].user_id, failing)
    /\ calls' = [calls EXCEPT ![p] =
           Finish([@ EXCEPT !.request_id = next_id.pay_requests],
                  200, "Pay request sent")]
    /\ UNCHANGED <<otp_storage, merchants, reminders,
                   users, merchant_user_links, transactions,
                   balance_requests, link_requests, background_tasks,
                   merchant_connections, ncalls, env>>

create_pay_request(p) ==
    create_pay_request_begin(p) \/ create_pay_request_insert(p)

accept_pay_request_begin(p) ==
    /\ Arrive(p)
    /\ \E tok \in env.tokens, rid \in 1..next_id.pay_requests, pin \in env.pins :
        LET c == New("accept_pay_request", tok, "-", "-", pin, 0, rid)
            found == {r \in pay_requests : r.id = rid} IN
        \/ /\ pay_auth(tok) # 200
           /\ calls' = [calls EXCEPT ![p] =
                  IF pay_auth(tok) = 401 THEN Finish(c, 401, "Unauthorized")
                  ELSE Finish(c, 403, "Forbidden")]
        \/ /\ pay_auth(tok) = 200
           /\ found = {}
           /\ calls' = [calls EXCEPT ![p] = Finish(c, 404, "NotFound")]
        \/ /\ pay_auth(tok) = 200
           /\ \E pay_req \in found :
                calls' = [calls EXCEPT ![p] =
                    IF pay_req.user_id # verify_token(tok)
                    THEN Finish(c, 403, "Forbidden")
                    ELSE IF already_processed(pay_req)
                    THEN Finish(c, 400, "AlreadyProcessed")
                    ELSE [c EXCEPT !.pc = "select_link",
                                   !.req_data = pay_req]]
    /\ UNCHANGED <<otp_storage, db, background_tasks, registry, sent, env>>

accept_pay_request_select_link(p) ==
    /\ calls[p].op = "accept_pay_request" /\ calls[p].pc = "select_link"
    /\ LET pay_req == calls[p].req_data
           found == LinksOf(pay_req.merchant_id, pay_req.user_id) IN
        \/ /\ found = {}
           /\ calls' = [calls EXCEPT ![p] = Finish(@, 404, "Link not found")]
        \/ \E link \in found :
             LET v == verify_password(calls[p].pin, link.pin) IN
             calls' = [calls EXCEPT ![p] =
                 IF v = "raise" THEN Finish(@, 500, "Internal")
                 ELSE IF v = "false" THEN Finish(@, 401, "InvalidPin")
                 ELSE IF insufficient_balance(link.balance, pay_req.amount)
                      THEN Finish([@ EXCEPT !.link = link],
                                  400, "InsufficientBalance")
                 ELSE [@ EXCEPT !.pc = "update_link", !.link = link,
                                !.new_balance =
                                    link.balance - pay_req.amount]]
    /\ UNCHANGED <<otp_storage, db, background_tasks, registry, sent, ncalls, env>>

\* update({"balance": b}).eq("merchant_id", m).eq("user_id", u)
UpdateBalanceByPair(m, u, new_balance) ==
    {IF l.merchant_id = m /\ l.user_id = u
     THEN [l EXCEPT !.balance = new_balance] ELSE l :
        l \in merchant_user_links}

accept_pay_request_update_link(p) ==
    /\ calls[p].op = "accept_pay_request" /\ calls[p].pc = "update_link"
    /\ merchant_user_links' =
           UpdateBalanceByPair(calls[p].req_data.merchant_id,
                               calls[p].req_data.user_id,
                               calls[p].new_balance)
    /\ calls' = [calls EXCEPT ![p] = [@ EXCEPT !.pc = "update_status"]]
    /\ UNCHANGED <<otp_storage, merchants, reminders, users, transactions, balance_requests,
                   link_requests, pay_requests, next_id, background_tasks,
                   registry, sent, ncalls, env>>

accept_pay_request_update_status(p) ==
    /\ calls[p].op = "accept_pay_request" /\ calls[p].pc = "update_status"
    /\ pay_requests' = SetStatus(pay_requests, calls[p].request_id, "accepted")
    /\ calls' = [calls EXCEPT ![p] = [@ EXCEPT !.pc = "insert_txn"]]
    /\ UNCHANGED <<otp_storage, merchants, reminders,
                   users, merchant_user_links, transactions,
                   balance_requests, link_requests, next_id, background_tasks,
                   registry, sent, ncalls, env>>

\* the row accept_pay_request inserts: it names no balance_after
PurchaseTxn(pay_req) ==
    [merchant_id |-> pay_req.merchant_id, user_id |-> pay_req.user_id,
     amount |-> pay_req.amount, transaction_type |-> "purchase"]

\* the insert, then the notification of the merchant, then the response
accept_pay_request_insert_txn(p) ==
    /\ calls[p].op = "accept_pay_request" /\ calls[p].pc = "insert_txn"
    /\ transactions' = Append(transactions, PurchaseTxn(calls[p].req_data))
    /\ \E failing \in SUBSET Registered(merchant_connections) :
        /\ sent' = sent \o Delivered(merchant_connections,
                                    calls[p].req_data.merchant_id,
                                    failing, "payment_received")
        /\ merchant_connections' =
               AfterSend(merchant_connections,
                         calls[p].req_data.merchant_id, failing)
    /\ calls' = [calls EXCEPT ![p] = Finish(@, 200, "Payment successful")]
    /\ UNCHANGED <<otp_storage, merchants, reminders,
                   users, merchant_user_links, balance_requests,
                   link_requests, pay_requests, next_id, background_tasks,
                   user_connections, ncalls, env>>

accept_pay_request(p) ==
    \/ accept_pay_request_begin(p)
    \/ accept_pay_request_select_link(p)
    \/ accept_pay_request_update_link(p)
    \/ accept_pay_request_update_status(p)
    \/ accept_pay_request_insert_txn(p)

reject_pay_request_begin(p) ==
    /\ Arrive(p)
    /\ \E tok \in env.tokens, rid \in 1..next_id.pay_requests :
        LET c == New("reject_pay_request", tok, "-", "-", "-", 0, rid)
            found == {r \in pay_requests : r.id = rid} IN
        \/ /\ pay_auth(tok) # 200
           /\ calls' = [calls EXCEPT ![p] =
                  IF pay_auth(tok) = 401 THEN Finish(c, 401, "Unauthorized")
                  ELSE Finish(c, 403, "Forbidden")]
        \/ /\ pay_auth(tok) = 200
           /\ found = {}
           /\ calls' = [calls EXCEPT ![p] = Finish(c, 404, "NotFound")]
        \/ /\ pay_auth(tok) = 200
           /\ \E pay_req \in found :
                calls' = [calls EXCEPT ![p] =
                    IF pay_req.user_id # verify_token(tok)
                    THEN Finish(c, 403, "Forbidden")
                    ELSE IF already_processed(pay_req)
                    THEN Finish(c, 400, "AlreadyProcessed")
                    ELSE [c EXCEPT !.pc = "update_status",
                                   !.req_data = pay_req]]
    /\ UNCHANGED <<otp_storage, db, background_tasks, registry, sent, env>>

reject_pay_request_update_status(p) ==
    /\ calls[p].op = "reject_pay_request" /\ calls[p].pc = "update_status"
    /\ pay_requests' = SetStatus(pay_requests, calls[p].request_id, "rejected")
    /\ calls' = [calls EXCEPT ![p] = Finish(@, 200, "Pay request rejected")]
    /\ UNCHANGED <<otp_storage, merchants, reminders,
                   users, merchant_user_links, transactions,
                   balance_requests, link_requests, next_id, background_tasks,
                   registry, sent, ncalls, env>>

reject_pay_request(p) ==
    reject_pay_request_begin(p) \/ reject_pay_request_update_status(p)

---------------------------------------------------------------------------
(* routes/user_routes.py *)

\* verify_resource_ownership: 403 unless the token's sub is the resource
verify_resource_ownership(tok, resource_id) ==
    IF verify_token(tok) # resource_id THEN 403 ELSE 200

\* DELETE /users/account/{user_id}: the token checks and the read of the
\* user's links with the balance check
delete_user_account_begin(p) ==
    /\ Arrive(p)
    /\ \E tok \in env.tokens, u \in env.user_ids :
        LET c == New("delete_user_account", tok, "-", u, "-", 0, 0)
            links == {l \in merchant_user_links : l.user_id = u}
            non_zero_balances == {l \in links : l.balance # 0} IN
        calls' = [calls EXCEPT ![p] =
            IF get_current_user(tok) = 401 THEN Finish(c, 401, "Unauthorized")
            ELSE IF verify_resource_ownership(tok, u) = 403
                 THEN Finish(c, 403, "Forbidden")
            ELSE IF non_zero_balances # {}
                 THEN Finish(c, 400, "Cannot delete account")
            ELSE [c EXCEPT !.pc = "delete_transactions"]]
    /\ UNCHANGED <<otp_storage, db, background_tasks, registry, sent, env>>

delete_user_account_delete_transactions(p) ==
    /\ calls[p].op = "delete_user_account"
    /\ calls[p].pc = "delete_transactions"
    /\ transactions' =
           SelectSeq(transactions, LAMBDA t : t.user_id # calls[p].user_id)
    /\ calls' = [calls EXCEPT ![p].pc = "delete_balance_requests"]
    /\ UNCHANGED <<otp_storage, merchants, reminders,
                   users, merchant_user_links, balance_requests,
                   link_requests, pay_requests, next_id, background_tasks,
                   registry, sent, ncalls, env>>

delete_user_account_delete_balance_requests(p) ==
    /\ calls[p].op = "delete_user_account"
    /\ calls[p].pc = "delete_balance_requests"
    /\ balance_requests' =
           {r \in balance_requests : r.user_id # calls[p].user_id}
    /\ calls' = [calls EXCEPT ![p].pc = "delete_link_requests"]
    /\ UNCHANGED <<otp_storage, merchants, reminders,
                   users, merchant_user_links, transactions,
                   link_requests, pay_requests, next_id, background_tasks,
                   registry, sent, ncalls, env>>

delete_user_account_delete_link_requests(p) ==
    /\ calls[p].op = "delete_user_account"
    /\ calls[p].pc = "delete_link_requests"
    /\ link_requests' = {r \in link_requests : r.user_id # calls[p].user_id}
    /\ calls' = [calls EXCEPT ![p].pc = "delete_links"]
    /\ UNCHANGED <<otp_storage, merchants, reminders,
                   users, merchant_user_links, transactions,
                   balance_requests, pay_requests, next_id, background_tasks,
                   registry, sent, ncalls, env>>

\* delete().eq("user_id", user_id): every link of the user that is in the
\* table now
delete_user_account_delete_links(p) ==
    /\ calls[p].op = "delete_user_account"
    /\ calls[p].pc = "delete_links"
    /\ merchant_user_links' =
           {l \in merchant_user_links : l.user_id # calls[p].user_id}
    /\ calls' = [calls EXCEPT ![p].pc = "delete_user"]
    /\ UNCHANGED <<otp_storage, merchants, reminders, users, transactions, balance_requests,
                   link_requests, pay_requests, next_id, background_tasks,
                   registry, sent, ncalls, env>>

delete_user_account_delete_user(p) ==
    /\ calls[p].op = "delete_user_account"
    /\ calls[p].pc = "delete_user"
    /\ users' = users \ {calls[p].user_id}
    /\ calls' = [calls EXCEPT ![p] =
           IF calls[p].user_id \notin users
           THEN Finish(@, 404, "User not found")
           ELSE Finish(@, 200, "Account deleted successfully")]
    /\ UNCHANGED <<otp_storage, merchants, reminders, merchant_user_links, transactions,
                   balance_requests, link_requests, pay_requests, next_id,
                   background_tasks, registry, sent, ncalls, env>>

delete_user_account(p) ==
    \/ delete_user_account_begin(p)
    \/ delete_user_account_delete_transactions(p)
    \/ delete_user_account_delete_balance_requests(p)
    \/ delete_user_account_delete_link_requests(p)
    \/ delete_user_account_delete_links(p)
    \/ delete_user_account_delete_user(p)

---------------------------------------------------------------------------
(* routes/merchant_routes.py, routes/user_routes.py: reminders *)

\* the reminder dates callers send: ISO strings that name an instant before,
\* at or after the clock of the handler, and a string that is no ISO date
Dates == {"past", "now", "future", "invalid"}

\* datetime.now(tz), the origin of the instants below
now == 0

\* datetime.fromisoformat(s.replace('Z', '+00:00')) of a well-formed string
fromisoformat(date_string) ==
    IF date_string = "past" THEN now - 1
    ELSE IF date_string = "now" THEN now
    ELSE now + 1

\* the date validation of create_reminder and update_reminder
check_reminder_date(date_string) ==
    IF date_string = "invalid" THEN "ValueError"
    ELSE IF fromisoformat(date_string) <= now THEN "not in the future"
    ELSE "ok"

\* a faulty row: it is born expired
NewReminder_expired(c, id) ==
    [id |-> id, merchant_id |-> c.merchant_id, user_id |-> c.user_id,
     link_id |-> c.link_id, message |-> c.message,
     reminder_date |-> c.reminder_date, status |-> "expired"]

\* the row create_reminder inserts
NewReminder(c, id) ==
    [id |-> id, merchant_id |-> c.merchant_id, user_id |-> c.user_id,
     link_id |-> c.link_id, message |-> c.message,
     reminder_date |-> c.reminder_date, status |-> "active"]

\* POST /merchant/reminders/create up to the insert: the merchant is the
\* token's sub; link_id 0 stands for a missing field
create_reminder_begin(p) ==
    /\ Arrive(p)
    /\ \E tok \in env.tokens, u \in env.user_ids,
          link_id \in 0..next_id.links, d \in Dates :
        LET merchant_id == verify_token(tok)
            c == [New("create_reminder", tok, merchant_id, u, "-", 0, 0)
                    EXCEPT !.link_id = link_id, !.message = "pay",
                           !.reminder_date = d]
            found == {l \in merchant_user_links :
                        l.id = link_id /\ l.merchant_id = merchant_id} IN
        \/ /\ get_current_user(tok) = 401 \/ link_id = 0 \/ found = {}
           /\ calls' = [calls EXCEPT ![p] =
                  IF get_current_user(tok) = 401
                  THEN Finish(c, 401, "Unauthorized")
                  ELSE IF link_id = 0
                  THEN Finish(c, 400, "Missing required fields")
                  ELSE Finish(c, 404, "Link not found or unauthorized")]
        \/ /\ get_current_user(tok) = 200 /\ link_id # 0
           /\ \E link_data \in found :
                calls' = [calls EXCEPT ![p] =
                    IF link_data.balance >= 0
                    THEN Finish(c, 400, "Balance is not negative")
                    ELSE IF link_data.user_id # u
                    THEN Finish(c, 400, "User ID does not match the link")
                    ELSE IF check_reminder_date(d) = "ValueError"
                    THEN Finish(c, 400, "Invalid date format")
                    ELSE IF check_reminder_date(d) = "not in the future"
                    THEN Finish(c, 400, "Reminder date must be in the future")
                    ELSE [c EXCEPT !.pc = "insert", !.link = link_data]]
    /\ UNCHANGED <<otp_storage, db, background_tasks, registry, sent, env>>

\* the insert, then manager.broadcast_reminder_to_user: ConnectionManager
\* has no such attribute, the AttributeError is caught by "except Exception"
\* and the call answers 500
create_reminder_insert(p) ==
    /\ calls[p].op = "create_reminder" /\ calls[p].pc = "insert"
    /\ reminders' = reminders \cup {NewReminder(calls[p], next_id.reminders)}
    /\ next_id' = [next_id EXCEPT !.reminders = @ + 1]
    /\ calls' = [calls EXCEPT ![p] =
           Finish([@ EXCEPT !.request_id = next_id.reminders],
                  500, "Internal")]
    /\ UNCHANGED <<otp_storage, merchants, users, merchant_user_links, transactions,
                   balance_requests, link_requests, pay_requests,
                   background_tasks, registry, sent, ncalls, env>>

create_reminder(p) == create_reminder_begin(p) \/ create_reminder_insert(p)

\* PUT /merchant/reminders/{reminder_id} up to the update; "none" is a field
\* the body leaves out
update_reminder_begin(p) ==
    /\ Arrive(p)
    /\ \E tok \in env.tokens, rid \in 1..next_id.reminders,
          message \in {"none", "pay now"},
          d \in {"none", "past", "future"},
          st \in {"none", "dismissed", "expired", "overdue"} :
        LET merchant_id == verify_token(tok)
            c == [New("update_reminder", tok, merchant_id, "-", "-", 0, rid)
                    EXCEPT !.message = message, !.reminder_date = d,
                           !.status = st]
            found == {r \in reminders :
                        r.id = rid /\ r.merchant_id = merchant_id} IN
        calls' = [calls EXCEPT ![p] =
            IF get_current_user(tok) = 401 THEN Finish(c, 401, "Unauthorized")
            ELSE IF found = {}
            THEN Finish(c, 404, "Reminder not found or unauthorized")
            ELSE IF d # "none" /\ check_reminder_date(d) = "ValueError"
            THEN Finish(c, 400, "Invalid date format")
            ELSE IF d # "none" /\ check_reminder_date(d) # "ok"
            THEN Finish(c, 400, "Reminder date must be in the future")
            ELSE IF st \notin {"none", "active", "dismissed", "expired"}
            THEN Finish(c, 400, "Status must be active, dismissed or expired")
            ELSE IF message = "none" /\ d = "none" /\ st = "none"
            THEN Finish(c, 400, "No valid fields to update")
            ELSE [c EXCEPT !.pc = "update"]]
    /\ UNCHANGED <<otp_storage, db, background_tasks, registry, sent, env>>

\* update(update_data).eq("id", reminder_id): the fields the body names
UpdateReminder(r, c) ==
    [r EXCEPT
       !.message = IF c.message = "none" THEN @ ELSE c.message,
       !.reminder_date = IF c.reminder_date = "none" THEN @
                         ELSE c.reminder_date,
       !.status = IF c.status = "none" THEN @ ELSE c.status]

update_reminder_update(p) ==
    /\ calls[p].op = "update_reminder" /\ calls[p].pc = "update"
    /\ reminders' =
           {IF r.id = calls[p].request_id THEN UpdateReminder(r, calls[p])
            ELSE r : r \in reminders}
    /\ calls' = [calls EXCEPT ![p] =
           IF \E r \in reminders : r.id = calls[p].request_id
           THEN Finish(@, 200, "Reminder updated successfully")
           ELSE Finish(@, 404, "Reminder not found")]
    /\ UNCHANGED <<otp_storage, merchants, users, merchant_user_links, transactions,
                   balance_requests, link_requests, pay_requests, next_id,
                   background_tasks, registry, sent, ncalls, env>>

update_reminder(p) == update_reminder_begin(p) \/ update_reminder_update(p)

\* DELETE /merchant/reminders/{reminder_id}
delete_reminder_begin(p) ==
    /\ Arrive(p)
    /\ \E tok \in env.tokens, rid \in 1..next_id.reminders :
        LET merchant_id == verify_token(tok)
            c == New("delete_reminder", tok, merchant_id, "-", "-", 0, rid)
            found == {r \in reminders :
                        r.id = rid /\ r.merchant_id = merchant_id} IN
        calls' = [calls EXCEPT ![p] =
            IF get_current_user(tok) = 401 THEN Finish(c, 401, "Unauthorized")
            ELSE IF found = {}
            THEN Finish(c, 404, "Reminder not found or unauthorized")
            ELSE [c EXCEPT !.pc = "delete"]]
    /\ UNCHANGED <<otp_storage, db, background_tasks, registry, sent, env>>

delete_reminder_delete(p) ==
    /\ calls[p].op = "delete_reminder" /\ calls[p].pc = "delete"
    /\ reminders' = {r \in reminders : r.id # calls[p].request_id}
    /\ calls' = [calls EXCEPT ![p] =
           Finish(@, 200, "Reminder deleted successfully")]
    /\ UNCHANGED <<otp_storage, merchants, users, merchant_user_links, transactions,
                   balance_requests, link_requests, pay_requests, next_id,
                   background_tasks, registry, sent, ncalls, env>>

delete_reminder(p) == delete_reminder_begin(p) \/ delete_reminder_delete(p)

\* DELETE /users/notifications/{reminder_id}/dismiss: the user is the token's
\* sub
dismiss_notification_begin(p) ==
    /\ Arrive(p)
    /\ \E tok \in env.tokens, rid \in 1..next_id.reminders :
        LET user_id == verify_token(tok)
            c == New("dismiss_notification", tok, "-", user_id, "-", 0, rid)
            found == {r \in reminders : r.id = rid /\ r.user_id = user_id} IN
        calls' = [calls EXCEPT ![p] =
            IF get_current_user(tok) = 401 THEN Finish(c, 401, "Unauthorized")
            ELSE IF found = {}
            THEN Finish(c, 404, "Notification not found or unauthorized")
            ELSE [c EXCEPT !.pc = "delete"]]
    /\ UNCHANGED <<otp_storage, db, background_tasks, registry, sent, env>>

\* the delete, then manager.broadcast_reminder_dismissed_to_user, which
\* ConnectionManager does not have either: 500 after the row is gone
dismiss_notification_delete(p) ==
    /\ calls[p].op = "dismiss_notification" /\ calls[p].pc = "delete"
    /\ reminders' = {r \in reminders : r.id # calls[p].request_id}
    /\ calls' = [calls EXCEPT ![p] =
           IF \E r \in reminders : r.id = calls[p].request_id
           THEN Finish(@, 500, "Internal")
           ELSE Finish(@, 404, "Notification not found")]
    /\ UNCHANGED <<otp_storage, merchants, users, merchant_user_links, transactions,
                   balance_requests, link_requests, pay_requests, next_id,
                   background_tasks, registry, sent, ncalls, env>>

dismiss_notification(p) ==
    dismiss_notification_begin(p) \/ dismiss_notification_delete(p)

---------------------------------------------------------------------------
(* owner-scoped list endpoints *)

\* what a list handler answers: verify_resource_ownership raises the 403
\* HTTPException inside the handler's try block, whose only clause is
\* "except Exception": the 403 is caught and raised again as 500
OwnerScopedList(c, tok, resource_id) ==
    IF get_current_user(tok) = 401 THEN Finish(c, 401, "Unauthorized")
    ELSE IF verify_resource_ownership(tok, resource_id) = 403
    THEN Finish(c, 500, "Internal")
    ELSE Finish(c, 200, "list")

\* GET /merchants/linked-users/{merchant_id}
get_linked_users(p) ==
    /\ Arrive(p)
    /\ \E tok \in env.tokens, m \in env.merchant_ids :
        calls' = [calls EXCEPT ![p] =
            OwnerScopedList(New("get_linked_users", tok, m, "-", "-", 0, 0),
                            tok, m)]
    /\ UNCHANGED <<otp_storage, db, background_tasks, registry, sent, env>>

\* GET /users/linked-merchants/{user_id}
get_linked_merchants(p) ==
    /\ Arrive(p)
    /\ \E tok \in env.tokens, u \in env.user_ids :
        calls' = [calls EXCEPT ![p] =
            OwnerScopedList(New("get_linked_merchants", tok, "-", u, "-", 0, 0),
                            tok, u)]
    /\ UNCHANGED <<otp_storage, db, background_tasks, registry, sent, env>>

\* GET /link-requests/merchant/{merchant_id}
get_merchant_link_requests(p) ==
    /\ Arrive(p)
    /\ \E tok \in env.tokens, m \in env.merchant_ids :
        calls' = [calls EXCEPT ![p] =
            OwnerScopedList(
                New("get_merchant_link_requests", tok, m, "-", "-", 0, 0),
                tok, m)]
    /\ UNCHANGED <<otp_storage, db, background_tasks, registry, sent, env>>

---------------------------------------------------------------------------
(* routes/otp_routes.py *)

\* the phone numbers callers send (the second is shorter than 10 digits) and
\* the codes generate_otp draws and callers type
Phones == {"9000000001", "123"}
Otps == {"111111", "222222"}

\* del otp_storage[phone]
RemoveOtp(storage, phone) ==
    [k \in DOMAIN storage \ {phone} |-> storage[k]]

\* otp_storage[phone] = {"otp": otp, "expiry": now + 5 min, "attempts": 0};
\* expired stands for datetime.now() > expiry
StoreOtp(storage, phone, otp) ==
    [k \in DOMAIN storage \cup {phone} |->
        IF k = phone THEN [otp |-> otp, expired |-> FALSE, attempts |-> 0]
        ELSE storage[k]]

\* the body of send_otp, after the entry of the phone was cleared (clear) or
\* on the storage as it is: phone validation, the code
\* drawn by generate_otp, the call of the SMS gateway, then the entry.  The
\* handler has no await before its return: it runs as one step.
send_otp_body(p, op, clear) ==
    /\ Arrive(p)
    /\ \E phone \in Phones, otp \in Otps, gateway \in {"000", "error"} :
        LET c == New(op, "none", "-", phone, otp, 0, 0)
            storage == IF clear THEN RemoveOtp(otp_storage, phone)
                       ELSE otp_storage IN
        IF Len(phone) < 10
        THEN /\ calls' = [calls EXCEPT ![p] =
                    Finish(c, 400, "Invalid phone number")]
             /\ otp_storage' = storage
        ELSE IF gateway # "000"
        THEN /\ calls' = [calls EXCEPT ![p] = Finish(c, 500, "Internal")]
             /\ otp_storage' = storage
        ELSE /\ calls' = [calls EXCEPT ![p] =
                    Finish(c, 200, "OTP sent successfully")]
             /\ otp_storage' = StoreOtp(storage, phone, otp)
    /\ UNCHANGED <<db, background_tasks, registry, sent, env>>

\* POST /otp/send
send_otp(p) ==
    send_otp_body(p, "send_otp", FALSE)

\* POST /otp/resend: the entry of the phone is cleared, then send_otp
resend_otp(p) ==
    send_otp_body(p, "resend_otp", TRUE)

\* a faulty attempts check: it never stops a caller
too_many_attempts_never(stored_data) == FALSE

\* the attempts check of verify_otp
too_many_attempts(stored_data) == stored_data.attempts >= 3

\* POST /otp/verify
verify_otp(p) ==
    /\ Arrive(p)
    /\ \E phone \in Phones, otp \in Otps :
        LET c == New("verify_otp", "none", "-", phone, otp, 0, 0) IN
        IF phone \notin DOMAIN otp_storage
        THEN /\ calls' = [calls EXCEPT ![p] = Finish(c, 400, "No OTP found")]
             /\ UNCHANGED otp_storage
        ELSE LET stored_data == otp_storage[phone]
                 d == [c EXCEPT !.req_data = stored_data] IN
             IF stored_data.expired
             THEN /\ otp_storage' = RemoveOtp(otp_storage, phone)
                  /\ calls' = [calls EXCEPT ![p] =
                         Finish(d, 400, "OTP has expired")]
             ELSE IF too_many_attempts(stored_data)
             THEN /\ otp_storage' = RemoveOtp(otp_storage, phone)
                  /\ calls' = [calls EXCEPT ![p] =
                         Finish(d, 400, "Too many failed attempts")]
             ELSE IF stored_data.otp # otp
             THEN /\ otp_storage' =
                         [otp_storage EXCEPT ![phone].attempts = @ + 1]
                  /\ calls' = [calls EXCEPT ![p] =
                         Finish(d, 400, "Invalid OTP")]
             ELSE /\ otp_storage' = RemoveOtp(otp_storage, phone)
                  /\ calls' = [calls EXCEPT ![p] =
                         Finish(d, 200, "OTP verified successfully")]
    /\ UNCHANGED <<db, background_tasks, registry, sent, env>>

\* five minutes pass after an OTP was stored
otp_expires ==
    /\ \E phone \in DOMAIN otp_storage :
        /\ ~otp_storage[phone].expired
        /\ otp_storage' = [otp_storage EXCEPT ![phone].expired = TRUE]
    /\ UNCHANGED <<db, background_tasks, registry, sent, calls, ncalls, env>>

---------------------------------------------------------------------------
(* Specifications *)

NoConnections == [k \in {} |-> <<>>]

InitStore ==
    /\ merchants = {"m1"}
    /\ users = {"u1"}
    /\ merchant_user_links = {}
    /\ transactions = <<>>
    /\ balance_requests = {}
    /\ link_requests = {}
    /\ pay_requests = {}
    /\ reminders = {}
    /\ otp_storage = NoOtp
    /\ next_id = [links |-> 1, balance_requests |-> 1, link_requests |-> 1,
                  pay_requests |-> 1, reminders |-> 1]
    /\ background_tasks = {}
    /\ merchant_connections = NoConnections
    /\ user_connections = NoConnections
    /\ sent = <<>>
    /\ calls = [p \in Procs |-> NoCall]
    /\ ncalls = 0

\* callers that hold the token of the merchant or of the user
Owners == {"m1", "u1"}

Init ==
    /\ InitStore
    /\ env = [tokens |-> Owners, merchant_ids |-> {"m1"},
              user_ids |-> {"u1"}, pins |-> Pins, workers |-> Procs,
              channels |-> {"ws1"}]

\* the same callers, who all type the same PIN
InitOnePin ==
    /\ InitStore
    /\ env = [tokens |-> Owners, merchant_ids |-> {"m1"},
              user_ids |-> {"u1"}, pins |-> {"1234"}, workers |-> Procs,
              channels |-> {"ws1"}]

\* one call at a time, one PIN
InitSerial ==
    /\ InitStore
    /\ env = [tokens |-> Owners, merchant_ids |-> {"m1"},
              user_ids |-> {"u1"}, pins |-> {"1234"}, workers |-> {"p1"},
              channels |-> {"ws1"}]

\* callers that also name a merchant and a user that have no row
InitUnknownIds ==
    /\ InitStore
    /\ env = [tokens |-> Owners, merchant_ids |-> {"m1", "m9"},
              user_ids |-> {"u1", "u9"}, pins |-> {"1234"},
              workers |-> Procs, channels |-> {"ws1"}]

\* clients that open up to two WebSocket channels, one call at a time
InitFanout ==
    /\ InitStore
    /\ env = [tokens |-> Owners, merchant_ids |-> {"m1"},
              user_ids |-> {"u1"}, pins |-> {"1234"}, workers |-> {"p1"},
              channels |-> Channels]

\* a store in which the link of (m1, u1) carries a debt: the balance the
\* reminders are made for.  No handler of this model writes a balance below
\* 0; the row stands for one written to the store by other means.  One
\* worker: the reminder handlers are taken one call at a time.
InitDebt ==
    /\ merchants = {"m1"}
    /\ users = {"u1"}
    /\ merchant_user_links =
           {[id |-> 1, merchant_id |-> "m1", user_id |-> "u1",
             pin |-> hash_password("1234"), balance |-> -1]}
    /\ transactions = <<>>
    /\ balance_requests = {}
    /\ link_requests = {}
    /\ pay_requests = {}
    /\ reminders = {}
    /\ otp_storage = NoOtp
    /\ next_id = [links |-> 2, balance_requests |-> 1, link_requests |-> 1,
                  pay_requests |-> 1, reminders |-> 1]
    /\ background_tasks = {}
    /\ merchant_connections = NoConnections
    /\ user_connections = NoConnections
    /\ sent = <<>>
    /\ calls = [p \in Procs |-> NoCall]
    /\ ncalls = 0
    /\ env = [tokens |-> {"none"} \cup Owners, merchant_ids |-> {"m1"},
              user_ids |-> {"u1", "u9"}, pins |-> {"1234"},
              workers |-> {"p1"}, channels |-> {"ws1"}]

\* the store after /link/create and one /link/add-balance of MaxAmount for
\* (m1, u1): a funded Link and its credit
InitFunded ==
    /\ merchants = {"m1"}
    /\ users = {"u1"}
    /\ merchant_user_links =
           {[id |-> 1, merchant_id |-> "m1", user_id |-> "u1",
             pin |-> hash_password("1234"), balance |-> MaxAmount]}
    /\ transactions = <<Txn("m1", "u1", MaxAmount, "credit", MaxAmount)>>
    /\ balance_requests = {}
    /\ link_requests = {}
    /\ pay_requests = {}
    /\ reminders = {}
    /\ otp_storage = NoOtp
    /\ next_id = [links |-> 2, balance_requests |-> 1, link_requests |-> 1,
                  pay_requests |-> 1, reminders |-> 1]
    /\ background_tasks = {}
    /\ merchant_connections = NoConnections
    /\ user_connections = NoConnections
    /\ sent = <<>>
    /\ calls = [p \in Procs |-> NoCall]
    /\ ncalls = 0
    /\ env = [tokens |-> Owners, merchant_ids |-> {"m1"},
              user_ids |-> {"u1"}, pins |-> {"1234"},
              workers |-> Procs, channels |-> {"ws1"}]

\* the registry after two clients of u1, or two clients of m1, have
\* connected; no client connects later on
InitSend ==
    /\ merchants = {"m1"}
    /\ users = {"u1"}
    /\ merchant_user_links = {}
    /\ transactions = <<>>
    /\ balance_requests = {}
    /\ link_requests = {}
    /\ pay_requests = {}
    /\ reminders = {}
    /\ otp_storage = NoOtp
    /\ next_id = [links |-> 1, balance_requests |-> 1, link_requests |-> 1,
                  pay_requests |-> 1, reminders |-> 1]
    /\ background_tasks = {}
    /\ \/ /\ user_connections =
                AddChannel(AddChannel(NoConnections, "u1", "ws1"), "u1", "ws2")
          /\ merchant_connections = NoConnections
       \/ /\ merchant_connections =
                AddChannel(AddChannel(NoConnections, "m1", "ws1"), "m1", "ws2")
          /\ user_connections = NoConnections
    /\ sent = <<>>
    /\ calls = [p \in Procs |-> NoCall]
    /\ ncalls = 0
    /\ env = [tokens |-> Owners, merchant_ids |-> {"m1"},
              user_ids |-> {"u1"}, pins |-> {"1234"},
              workers |-> Procs, channels |-> Channels]

\* the process after one /otp/send for a phone: its OTP is stored
InitOtp ==
    /\ merchants = {"m1"}
    /\ users = {"u1"}
    /\ merchant_user_links = {}
    /\ transactions = <<>>
    /\ balance_requests = {}
    /\ link_requests = {}
    /\ pay_requests = {}
    /\ reminders = {}
    /\ otp_storage = StoreOtp(NoOtp, "9000000001", "111111")
    /\ next_id = [links |-> 1, balance_requests |-> 1, link_requests |-> 1,
                  pay_requests |-> 1, reminders |-> 1]
    /\ background_tasks = {}
    /\ merchant_connections = NoConnections
    /\ user_connections = NoConnections
    /\ sent = <<>>
    /\ calls = [p \in Procs |-> NoCall]
    /\ ncalls = 0
    /\ env = [tokens |-> {"none"}, merchant_ids |-> {"m1"},
              user_ids |-> {"u1"}, pins |-> {"1234"},
              workers |-> Procs, channels |-> {"ws1"}]

\* every kind of caller (no header, a token that does not decode, the two
\* owners, a third account), one call at a time
InitAuth ==
    /\ InitStore
    /\ env = [tokens |-> {"none", "bad", "x1"} \cup Owners,
              merchant_ids |-> {"m1"}, user_ids |-> {"u1"},
              pins |-> Pins, workers |-> {"p1"},
              channels |-> {"ws1"}]

Ledger ==
    \/ \E p \in Procs : create_link(p)
    \/ \E p \in Procs : delink_merchant(p)
    \/ \E p \in Procs : add_balance(p)
    \/ \E p \in Procs : process_purchase(p)

BalanceRequests ==
    \/ \E p \in Procs : create_balance_request(p)
    \/ \E p \in Procs : accept_balance_request(p)
    \/ \E p \in Procs : reject_balance_request(p)
    \/ delete_request_after_delay

LinkRequests ==
    \/ \E p \in Procs : create_link_request(p)
    \/ \E p \in Procs : accept_link_request(p)
    \/ \E p \in Procs : reject_link_request(p)
    \/ delete_link_request_after_delay

PayRequests ==
    \/ \E p \in Procs : create_pay_request(p)
    \/ \E p \in Procs : accept_pay_request(p)
    \/ \E p \in Procs : reject_pay_request(p)

Fanout == connect \/ disconnect

Next == Ledger \/ BalanceRequests \/ LinkRequests \/ PayRequests \/ Fanout

\* the whole backend, concurrent owners
Spec == Init /\ [][Next]_vars

\* the whole backend, sequential callers of every kind
SpecAuth == InitAuth /\ [][Next]_vars

\* the ledger with the balance-request workflow, concurrent owners
NextLedger == Ledger \/ BalanceRequests
SpecLedger == Init /\ [][NextLedger]_vars

\* the pay-request workflow on links made and funded through the ledger
NextPay ==
    \/ \E p \in Procs : create_link(p)
    \/ \E p \in Procs : add_balance(p)
    \/ PayRequests
    \/ Fanout
SpecPay == Init /\ [][NextPay]_vars

\* the three request workflows
NextWorkflow ==
    \/ \E p \in Procs : create_link(p)
    \/ \E p \in Procs : add_balance(p)
    \/ BalanceRequests \/ LinkRequests \/ PayRequests
SpecWorkflow == InitOnePin /\ [][NextWorkflow]_vars

\* pay requests on links made through the ledger or by the acceptance of a
\* balance request
NextPinPay ==
    \/ \E p \in Procs : create_link(p)
    \/ \E p \in Procs : add_balance(p)
    \/ \E p \in Procs : create_balance_request(p)
    \/ \E p \in Procs : accept_balance_request(p)
    \/ \E p \in Procs : create_pay_request(p)
    \/ \E p \in Procs : accept_pay_request(p)
SpecPinPay == Init /\ [][NextPinPay]_vars

\* delink and a new /link/create next to the settlements of a funded Link
NextRelink ==
    \/ \E p \in Procs : create_link(p)
    \/ \E p \in Procs : delink_merchant(p)
    \/ \E p \in Procs : create_balance_request(p)
    \/ \E p \in Procs : accept_balance_request(p)
    \/ \E p \in Procs : create_pay_request(p)
    \/ \E p \in Procs : accept_pay_request(p)
SpecRelink == InitFunded /\ [][NextRelink]_vars

\* sends that take one channel at a time while clients disconnect
NextSend ==
    \/ \E p \in Procs : send_to_user(p)
    \/ \E p \in Procs : send_to_merchant(p)
    \/ disconnect
SpecSend == InitSend /\ [][NextSend]_vars

\* the OTP endpoints and the passing of time
NextOtp ==
    \/ \E p \in Procs : send_otp(p)
    \/ \E p \in Procs : resend_otp(p)
    \/ \E p \in Procs : verify_otp(p)
    \/ otp_expires
SpecOtp == InitOtp /\ [][NextOtp]_vars

\* every operation that writes a balance
NextBalances == NextPinPay \/ \E p \in Procs : process_purchase(p)
SpecBalances == InitOnePin /\ [][NextBalances]_vars

\* the balance-request workflow on links made by /link/create
NextBalanceFlow ==
    \/ \E p \in Procs : create_link(p)
    \/ BalanceRequests
SpecBalanceFlow == InitOnePin /\ [][NextBalanceFlow]_vars

\* the link-request workflow beside /link/create
NextLinkFlow ==
    \/ \E p \in Procs : create_link(p)
    \/ LinkRequests
SpecLinkFlow == Init /\ [][NextLinkFlow]_vars

\* the ledger, one call after the other
SpecLedgerSerial == InitSerial /\ [][Ledger]_vars

\* the ledger over a store whose Transaction insert may fail, one call at a
\* time
NextStoreFailure ==
    \/ Ledger
    \/ \E p \in Procs : add_balance_insert_txn_raises(p)
    \/ \E p \in Procs : process_purchase_insert_txn_raises(p)
SpecStoreFailure == InitSerial /\ [][NextStoreFailure]_vars

\* account deletion next to the ledger calls that make and fund links
NextAccount ==
    \/ \E p \in Procs : create_link(p)
    \/ \E p \in Procs : add_balance(p)
    \/ \E p \in Procs : process_purchase(p)
    \/ \E p \in Procs : delete_user_account(p)
SpecAccount == InitOnePin /\ [][NextAccount]_vars

\* the creation of links and of link and balance requests, for known and
\* unknown parties
NextCreate ==
    \/ \E p \in Procs : create_link(p)
    \/ \E p \in Procs : create_balance_request(p)
    \/ \E p \in Procs : create_link_request(p)
SpecCreate == InitUnknownIds /\ [][NextCreate]_vars

\* the creation of pay requests on links made and funded through the
\* ledger, with users that connect and disconnect
NextPayCreate ==
    \/ \E p \in Procs : create_link(p)
    \/ \E p \in Procs : add_balance(p)
    \/ \E p \in Procs : create_pay_request(p)
    \/ Fanout
SpecPayCreate == InitOnePin /\ [][NextPayCreate]_vars

\* the three request workflows in a process that keeps running: a
\* scheduled task is run once its sleep is over
SpecPurge ==
    /\ InitOnePin
    /\ [][NextWorkflow]_vars
    /\ WF_vars(delete_request_after_delay)
    /\ WF_vars(delete_link_request_after_delay)

\* pay requests and their notifications to clients with several channels
NextNotify ==
    \/ \E p \in Procs : create_link(p)
    \/ \E p \in Procs : add_balance(p)
    \/ \E p \in Procs : create_pay_request(p)
    \/ \E p \in Procs : accept_pay_request(p)
    \/ Fanout
SpecNotify == InitFanout /\ [][NextNotify]_vars

\* the reminders of a merchant whose customer is in debt
NextReminders ==
    \/ \E p \in Procs : create_reminder(p)
    \/ \E p \in Procs : update_reminder(p)
    \/ \E p \in Procs : delete_reminder(p)
    \/ \E p \in Procs : dismiss_notification(p)
SpecReminders == InitDebt /\ [][NextReminders]_vars

\* the list endpoints next to the calls that make and fund links, callers
\* of every kind
NextLists ==
    \/ \E p \in Procs : create_link(p)
    \/ \E p \in Procs : add_balance(p)
    \/ \E p \in Procs : get_linked_users(p)
    \/ \E p \in Procs : get_linked_merchants(p)
    \/ \E p \in Procs : get_merchant_link_requests(p)
SpecLists == InitAuth /\ [][NextLists]_vars

---------------------------------------------------------------------------
(* Properties *)

AcceptOps == {"accept_balance_request", "accept_link_request",
              "accept_pay_request"}
RejectOps == {"reject_balance_request", "reject_link_request",
              "reject_pay_request"}
SettleOps == AcceptOps \cup RejectOps

\* the table an accept / reject handler works on
KindOf(op) ==
    IF op \in {"accept_balance_request", "reject_balance_request"}
    THEN "balance_requests"
    ELSE IF op \in {"accept_link_request", "reject_link_request"}
    THEN "link_requests"
    ELSE "pay_requests"

TableOf(op) ==
    IF KindOf(op) = "balance_requests" THEN balance_requests
    ELSE IF KindOf(op) = "link_requests" THEN link_requests
    ELSE pay_requests

\* this step is the arrival of a call of one of `ops` on slot p
Began(p, ops) ==
    /\ ncalls' = ncalls + 1
    /\ calls'[p] # calls[p]
    /\ calls'[p].op \in ops

\* this step is a step of the call on slot p that leaves program point pc
Leaves(p, op, pc) ==
    /\ calls[p].op = op
    /\ calls[p].pc = pc
    /\ calls'[p] # calls[p]

Succeeded(c) == c.pc = "done" /\ c.resp.code \in {200, 201}
FailedWith(c, code, detail) == c.pc = "done" /\ c.resp = Resp(code, detail)

\* C1: an accept and a reject of the same request never both succeed: of
\* two such calls that race on a pending request exactly one wins and the
\* other is answered AlreadyProcessed.
C1_OneSettlementWins ==
    \A p, q \in Procs :
        (/\ calls[p].op \in AcceptOps
         /\ calls[q].op \in RejectOps
         /\ KindOf(calls[p].op) = KindOf(calls[q].op)
         /\ calls[p].request_id = calls[q].request_id)
        => ~(Succeeded(calls[p]) /\ Succeeded(calls[q]))

\* C2: a pair (merchant, user) never has two Link rows: no handler inserts a
\* Link row for a pair that has one, and /link/create for a pair that has a
\* Link fails with AlreadyLinked and inserts nothing.
C2_OneLinkPerPair ==
    [][/\ \A l \in merchant_user_links' :
            l.id \notin {x.id : x \in merchant_user_links}
            => LinksOf(l.merchant_id, l.user_id) = {}
       /\ \A m \in merchants, u \in users :
            Cardinality({l \in merchant_user_links' :
                           l.merchant_id = m /\ l.user_id = u}) <= 1
       /\ \A p \in Procs :
            (/\ Began(p, {"create_link"})
             /\ LinksOf(calls'[p].merchant_id, calls'[p].user_id) # {})
            => /\ FailedWith(calls'[p], 400, "AlreadyLinked")
               /\ UNCHANGED merchant_user_links]_vars

\* C3: for each kind of request a pair never has two pending rows: no
\* handler inserts a pending request for a pair that has a pending request
\* of that kind.
C3_OnePendingPerPair ==
    [][/\ \A r \in balance_requests' \ balance_requests :
            r.status = "pending"
            => PendingOf(balance_requests, r.merchant_id, r.user_id) = {}
       /\ \A r \in link_requests' \ link_requests :
            r.status = "pending"
            => PendingOf(link_requests, r.merchant_id, r.user_id) = {}
       /\ \A r \in pay_requests' \ pay_requests :
            r.status = "pending"
            => PendingOf(pay_requests, r.merchant_id, r.user_id) = {}]_vars

\* C4: add-balance and purchase with a PIN that is not the Link's PIN fail
\* with InvalidPin (401) and leave the Links and the Transactions as they
\* were.
C4_WrongPinIsInvalidPin ==
    [][\A p \in Procs :
        Began(p, {"add_balance", "process_purchase"})
        => LET c == calls'[p]
               found == LinksOf(c.merchant_id, c.user_id) IN
           (/\ found # {}
            /\ c.pin \in Pins
            /\ \A l \in found : l.pin.secret # c.pin)
           => /\ FailedWith(c, 401, "InvalidPin")
              /\ UNCHANGED <<merchant_user_links, transactions>>]_vars

\* the PIN a settlement has at hand: the one stored with the balance
\* request, the one the user sends with the acceptance of a pay request
SettlePin(c) ==
    IF c.op = "accept_balance_request" THEN c.req_data.pin ELSE c.pin

\* C5: a settlement (acceptance of a balance request or of a pay request)
\* changes the balance of a Link row only when its PIN verifies against the
\* PIN hash of that row.
C5_SettlementVerifiesPin ==
    [][\A p \in Procs :
        (\/ Leaves(p, "accept_balance_request", "update_link")
         \/ Leaves(p, "accept_pay_request", "update_link"))
        => \A l \in merchant_user_links, l2 \in merchant_user_links' :
             (l.id = l2.id /\ l.balance # l2.balance)
             => verify_password(SettlePin(calls[p]), l.pin) = "true"]_vars

\* C6: a purchase of more than the Link's balance fails with
\* InsufficientBalance and changes neither Links nor Transactions; an
\* add-balance that passed the PIN check (amount > 0) ends in success.
C6_DebitNeedsFundsCreditSucceeds ==
    [][/\ \A p \in Procs :
            Began(p, {"process_purchase"})
            => LET c == calls'[p]
                   found == LinksOf(c.merchant_id, c.user_id) IN
               (/\ found # {}
                /\ \A l \in found :
                     /\ verify_password(c.pin, l.pin) = "true"
                     /\ l.balance < c.amount)
               => /\ FailedWith(c, 400, "InsufficientBalance")
                  /\ UNCHANGED <<merchant_user_links, transactions>>
       /\ \A p \in Procs :
            (/\ calls'[p].op = "add_balance"
             /\ calls'[p].pc = "done"
             /\ calls'[p].link # NoRow)
            => Succeeded(calls'[p])]_vars

\* the signed amount a balance mutation applies
Delta(c) ==
    IF c.op = "add_balance" THEN c.amount
    ELSE IF c.op = "process_purchase" THEN 0 - c.amount
    ELSE IF c.op = "accept_balance_request" THEN c.req_data.amount
    ELSE 0 - c.req_data.amount

\* C7: no lost update: the balance write of every mutation (add-balance,
\* purchase, balance-request accept, pay-request accept) moves the balance
\* the Link row has at that moment by exactly the mutation's signed amount,
\* so that two concurrent mutations leave initial + both deltas.
C7_NoLostUpdate ==
    [][\A p \in Procs :
        (\/ Leaves(p, "add_balance", "update")
         \/ Leaves(p, "process_purchase", "update")
         \/ Leaves(p, "accept_balance_request", "update_link")
         \/ Leaves(p, "accept_pay_request", "update_link"))
        => \A l \in merchant_user_links, l2 \in merchant_user_links' :
             (l.id = calls[p].link.id /\ l2.id = l.id)
             => l2.balance = l.balance + Delta(calls[p])]_vars

MutatingOps ==
    {"create_link", "delink_merchant", "add_balance", "process_purchase",
     "create_balance_request", "create_link_request", "create_pay_request"}
    \cup SettleOps

\* C8: a mutating call is rejected at once and changes nothing when it
\* carries no valid bearer token (401) or the token of an account that owns
\* neither side of the target (403, or 404 when the target does not exist).
C8_MutationsNeedOwnerToken ==
    [][\A p \in Procs :
        Began(p, MutatingOps)
        => LET c == calls'[p] IN
           /\ verify_token(c.tok) = "none"
              => /\ c.pc = "done" /\ c.resp.code = 401
                 /\ UNCHANGED db
           /\ (verify_token(c.tok) # "none" /\ verify_token(c.tok) \notin Owners)
              => /\ c.pc = "done" /\ c.resp.code \in {403, 404}
                 /\ UNCHANGED db]_vars

\* the caller passed the authentication the handler of the call asks for
Authenticated(c) ==
    IF KindOf(c.op) = "link_requests" THEN get_current_user(c.tok) = 200
    ELSE IF KindOf(c.op) = "pay_requests" THEN pay_auth(c.tok) = 200
    ELSE TRUE

\* the caller is the one the handler lets settle request r
MaySettle(c, r) ==
    KindOf(c.op) = "pay_requests" => r.user_id = verify_token(c.tok)

\* C9: an authenticated accept or reject of an id that has no row is
\* answered NotFound, one of a request that is no longer pending is
\* answered AlreadyProcessed, and either leaves every request status, the
\* Links and the Transactions as they were.
C9_MissingOrSettledRequest ==
    [][\A p \in Procs :
        Began(p, SettleOps)
        => LET c == calls'[p]
               found == {r \in TableOf(c.op) : r.id = c.request_id} IN
           /\ (Authenticated(c) /\ found = {})
              => /\ FailedWith(c, 404, "NotFound")
                 /\ UNCHANGED <<merchant_user_links, transactions,
                                balance_requests, link_requests,
                                pay_requests>>
           /\ \A r \in found :
                (Authenticated(c) /\ MaySettle(c, r) /\ r.status # "pending")
                => /\ FailedWith(c, 400, "AlreadyProcessed")
                   /\ UNCHANGED <<merchant_user_links, transactions,
                                  balance_requests, link_requests,
                                  pay_requests>>]_vars

\* an accept or reject was answered NotFound and another AlreadyProcessed
C9_Witness ==
    \E p, q \in Procs :
        /\ calls[p].op \in SettleOps /\ calls[q].op \in SettleOps
        /\ FailedWith(calls[p], 404, "NotFound")
        /\ FailedWith(calls[q], 400, "AlreadyProcessed")

\* C10: the acceptance of a pending pay request of amount a with the right
\* PIN on a Link of balance b >= a writes balance b - a, marks the request
\* accepted, appends one Transaction of type purchase with amount a and
\* balance_after b - a, and sends payment_received on the channels of the
\* merchant.
C10_AcceptPayRequestEffects ==
    [][\A p \in Procs :
        LET c == calls[p]
            a == c.req_data.amount
            b == c.link.balance
            m == c.req_data.merchant_id IN
        /\ Leaves(p, "accept_pay_request", "update_link")
           => \A l \in merchant_user_links' :
                (l.merchant_id = m /\ l.user_id = c.req_data.user_id)
                => l.balance = b - a
        /\ Leaves(p, "accept_pay_request", "update_status")
           => \A r \in pay_requests' :
                r.id = c.request_id => r.status = "accepted"
        /\ Leaves(p, "accept_pay_request", "insert_txn")
           => /\ Succeeded(calls'[p])
              /\ Len(transactions') = Len(transactions) + 1
              /\ LET t == transactions'[Len(transactions')] IN
                 /\ t.transaction_type = "purchase"
                 /\ t.amount = a
                 /\ "balance_after" \in DOMAIN t
                 /\ t.balance_after = b - a
              /\ m \in DOMAIN merchant_connections'
                 => \A i \in DOMAIN merchant_connections'[m] :
                      \E j \in (Len(sent) + 1)..Len(sent') :
                        sent'[j] = [ws |-> merchant_connections'[m][i],
                                    to |-> m, event |-> "payment_received"]]_vars

\* C11: the acceptance of a pending pay request with a PIN that is not the
\* Link's PIN fails with InvalidPin, and with the Link's PIN on a balance
\* below the amount fails with InsufficientBalance; either way the Links,
\* the Transactions and the pay requests (the request stays pending) are
\* left as they were.
C11_AcceptPayRequestRefusals ==
    [][\A p \in Procs :
        Leaves(p, "accept_pay_request", "select_link")
        => LET c == calls[p]
               found == {l \in merchant_user_links :
                           /\ l.merchant_id = c.req_data.merchant_id
                           /\ l.user_id = c.req_data.user_id} IN
           /\ (found # {} /\ \A l \in found : l.pin.secret # c.pin)
              => /\ FailedWith(calls'[p], 401, "InvalidPin")
                 /\ UNCHANGED <<merchant_user_links, transactions,
                                pay_requests>>
           /\ (/\ found # {}
               /\ \A l \in found : /\ l.pin.secret = c.pin
                                   /\ l.balance < c.req_data.amount)
              => /\ FailedWith(calls'[p], 400, "InsufficientBalance")
                 /\ UNCHANGED <<merchant_user_links, transactions,
                                pay_requests>>]_vars

\* the rows of merchant_user_links of a pair
PairLinks(m, u) ==
    {l \in merchant_user_links : l.merchant_id = m /\ l.user_id = u}

\* the step adds exactly the row l to merchant_user_links
InsertsLink(l) ==
    /\ l.id \notin {x.id : x \in merchant_user_links}
    /\ merchant_user_links' = merchant_user_links \cup {l}

\* the rows of `table` with the id of call c have status s after the step
StatusBecomes(table, c, s) ==
    /\ \E r \in table : r.id = c.request_id
    /\ \A r \in table : r.id = c.request_id => r.status = s

\* C12: the acceptance of a pending balance request of amount a writes the
\* balance it read plus a to the Link, or inserts the Link with balance a
\* when the pair has none, appends exactly one credit Transaction with
\* amount a and balance_after the new balance, and sets the request to
\* accepted.
C12_AcceptBalanceRequestEffects ==
    [][\A p \in Procs :
        LET c == calls[p]
            a == c.req_data.amount
            nb == IF c.link = NoRow THEN a ELSE c.link.balance + a IN
        /\ Leaves(p, "accept_balance_request", "update_link")
           => /\ \A l \in merchant_user_links' :
                   l.id = c.link.id => l.balance = c.link.balance + a
              /\ {l.id : l \in merchant_user_links'} =
                     {l.id : l \in merchant_user_links}
              /\ UNCHANGED transactions
        /\ Leaves(p, "accept_balance_request", "insert_link")
           => /\ \E l \in merchant_user_links' :
                   /\ InsertsLink(l)
                   /\ l.merchant_id = c.req_data.merchant_id
                   /\ l.user_id = c.req_data.user_id
                   /\ l.balance = a
              /\ UNCHANGED transactions
        /\ Leaves(p, "accept_balance_request", "insert_txn")
           => /\ Len(transactions') = Len(transactions) + 1
              /\ SubSeq(transactions', 1, Len(transactions)) = transactions
              /\ LET t == transactions'[Len(transactions')] IN
                 /\ t.merchant_id = c.req_data.merchant_id
                 /\ t.user_id = c.req_data.user_id
                 /\ t.transaction_type = "credit"
                 /\ t.amount = a
                 /\ t.balance_after = nb
              /\ UNCHANGED merchant_user_links
        /\ Leaves(p, "accept_balance_request", "update_status")
           => /\ Succeeded(calls'[p])
              /\ StatusBecomes(balance_requests', c, "accepted")
                 \/ \A r \in balance_requests : r.id # c.request_id
              /\ UNCHANGED <<merchant_user_links, transactions>>]_vars

\* an acceptance credited an existing Link and its request is accepted
C12_Witness ==
    \E p \in Procs :
        /\ calls[p].op = "accept_balance_request"
        /\ Succeeded(calls[p])
        /\ calls[p].link # NoRow
        /\ \E l \in merchant_user_links :
             l.id = calls[p].link.id /\ l.balance = calls[p].new_balance
        /\ \E i \in DOMAIN transactions :
             /\ transactions[i].transaction_type = "credit"
             /\ transactions[i].balance_after = calls[p].new_balance
        /\ \E r \in balance_requests :
             r.id = calls[p].request_id /\ r.status = "accepted"

\* C13: the acceptance of a pending link request for a pair without a Link
\* inserts exactly one Link for the pair, with balance 0 and the bcrypt
\* digest of the request's PIN, and sets the request to accepted.
C13_AcceptLinkRequestCreates ==
    [][\A p \in Procs :
        LET c == calls[p] IN
        /\ (/\ Leaves(p, "accept_link_request", "select_link")
            /\ PairLinks(c.req_data.merchant_id, c.req_data.user_id) = {})
           => /\ calls'[p].pc = "insert_link"
              /\ UNCHANGED merchant_user_links
        /\ Leaves(p, "accept_link_request", "insert_link")
           => \E l \in merchant_user_links' :
                /\ InsertsLink(l)
                /\ l.merchant_id = c.req_data.merchant_id
                /\ l.user_id = c.req_data.user_id
                /\ l.balance = 0
                /\ l.pin = [scheme |-> "bcrypt", secret |-> c.req_data.pin]
        /\ (/\ Leaves(p, "accept_link_request", "update_status")
            /\ c.link = NoRow)
           => /\ FailedWith(calls'[p], 200, "Link request accepted")
              /\ StatusBecomes(link_requests', c, "accepted")
                 \/ \A r \in link_requests : r.id # c.request_id
              /\ UNCHANGED merchant_user_links]_vars

\* an acceptance created the Link of its pair and its request is accepted
C13_Witness ==
    \E p \in Procs :
        /\ calls[p].op = "accept_link_request"
        /\ FailedWith(calls[p], 200, "Link request accepted")
        /\ \E l \in PairLinks(calls[p].req_data.merchant_id,
                              calls[p].req_data.user_id) :
             /\ l.balance = 0
             /\ l.pin = [scheme |-> "bcrypt",
                         secret |-> calls[p].req_data.pin]
        /\ \E r \in link_requests :
             r.id = calls[p].request_id /\ r.status = "accepted"

\* C14: the acceptance of a pending link request for a pair that has a Link
\* answers success, sets the request to accepted, inserts no Link and leaves
\* every Link row (balance, PIN) as it was.
C14_AcceptLinkRequestOnExistingLink ==
    [][\A p \in Procs :
        LET c == calls[p] IN
        /\ (/\ Leaves(p, "accept_link_request", "select_link")
            /\ PairLinks(c.req_data.merchant_id, c.req_data.user_id) # {})
           => /\ calls'[p].pc = "update_status"
              /\ calls'[p].link \in
                     PairLinks(c.req_data.merchant_id, c.req_data.user_id)
              /\ UNCHANGED merchant_user_links
        /\ (/\ Leaves(p, "accept_link_request", "update_status")
            /\ c.link # NoRow)
           => /\ FailedWith(calls'[p], 200, "Link already exists")
              /\ StatusBecomes(link_requests', c, "accepted")
                 \/ \A r \in link_requests : r.id # c.request_id
              /\ UNCHANGED merchant_user_links]_vars

\* an acceptance found the Link of its pair and its request is accepted
C14_Witness ==
    \E p \in Procs :
        /\ calls[p].op = "accept_link_request"
        /\ FailedWith(calls[p], 200, "Link already exists")
        /\ calls[p].link \in merchant_user_links
        /\ \E r \in link_requests :
             r.id = calls[p].request_id /\ r.status = "accepted"

\* every slot is free and exactly n calls have arrived
After(n) == ncalls = n /\ \A p \in Procs : Idle(p)

\* C15: one call after the other on a fresh store: after /link/create the
\* balance reads 0; after an add-balance of x it reads x and the one
\* Transaction has balance_after x; after a purchase of y it reads x - y
\* and there are exactly two Transactions, with balance_after x and x - y.
C15_RoundTrip ==
    \A m \in merchants, u \in users :
        LET c == calls["p1"] IN
        /\ (/\ After(1) /\ c.op = "create_link" /\ Succeeded(c)
            /\ c.merchant_id = m /\ c.user_id = u)
           => get_balance(m, u) = {0}
        /\ (/\ After(2) /\ c.op = "add_balance" /\ Succeeded(c)
            /\ c.merchant_id = m /\ c.user_id = u)
           => /\ get_balance(m, u) = {c.amount}
              /\ transactions =
                   <<[merchant_id |-> m, user_id |-> u, amount |-> c.amount,
                      transaction_type |-> "credit",
                      balance_after |-> c.amount]>>
        /\ (/\ After(3) /\ c.op = "process_purchase" /\ Succeeded(c)
            /\ c.merchant_id = m /\ c.user_id = u
            /\ Len(transactions) >= 1
            /\ transactions[1].transaction_type = "credit")
           => LET x == transactions[1].amount IN
              /\ get_balance(m, u) = {x - c.amount}
              /\ transactions =
                   <<[merchant_id |-> m, user_id |-> u, amount |-> x,
                      transaction_type |-> "credit", balance_after |-> x],
                     [merchant_id |-> m, user_id |-> u, amount |-> c.amount,
                      transaction_type |-> "debit",
                      balance_after |-> x - c.amount]>>

\* create, add-balance of MaxAmount, purchase of 1 have run in this order
C15_Witness ==
    /\ After(3)
    /\ calls["p1"].op = "process_purchase"
    /\ Succeeded(calls["p1"])
    /\ calls["p1"].amount = 1
    /\ Len(transactions) = 2
    /\ transactions[1].amount = MaxAmount
    /\ get_balance("m1", "u1") = {MaxAmount - 1}

\* C16: delink with a PIN that does not verify against the stored PIN hash
\* of the pair's Link fails with InvalidPin (401) and leaves the Links
\* (existence, balance, PIN) as they were.
C16_DelinkWrongPin ==
    [][\A p \in Procs :
        Began(p, {"delink_merchant"})
        => LET c == calls'[p]
               found == LinksOf(c.merchant_id, c.user_id) IN
           (/\ found # {}
            /\ \A l \in found : verify_password(c.pin, l.pin) # "true")
           => /\ FailedWith(c, 401, "InvalidPin")
              /\ UNCHANGED merchant_user_links]_vars

\* C17: delink with the PIN of the pair's Link goes on to delete that Link
\* whatever its balance is, and the deletion removes the row and answers
\* 200; no balance is looked at.
C17_DelinkIgnoresBalance ==
    [][\A p \in Procs :
        /\ Began(p, {"delink_merchant"})
           => LET c == calls'[p]
                  found == LinksOf(c.merchant_id, c.user_id) IN
              (found # {} /\ \A l \in found : l.pin.secret = c.pin)
              => /\ c.pc = "delete"
                 /\ c.link \in found
        /\ Leaves(p, "delink_merchant", "delete")
           => /\ \A l \in merchant_user_links' : l.id # calls[p].link.id
              /\ Succeeded(calls'[p])]_vars

\* C18: account deletion never deletes a Link whose balance is not 0: the
\* call of the owner is answered 400 and changes nothing when a Link of the
\* user has a balance other than 0, and every Link row that the deletion
\* removes has balance 0.
C18_AccountDeletionNeedsZeroBalances ==
    [][\A p \in Procs :
        /\ Began(p, {"delete_user_account"})
           => LET c == calls'[p] IN
              (/\ verify_token(c.tok) = c.user_id
               /\ \E l \in merchant_user_links :
                    l.user_id = c.user_id /\ l.balance # 0)
              => /\ FailedWith(c, 400, "Cannot delete account")
                 /\ UNCHANGED db
        /\ Leaves(p, "delete_user_account", "delete_links")
           => \A l \in merchant_user_links \ merchant_user_links' :
                l.balance = 0]_vars

CreateOps == {"create_balance_request", "create_link_request"}

\* the request rows of the pair of call c in the table of its kind
RequestsOf(table, c) ==
    {r \in table : r.merchant_id = c.merchant_id /\ r.user_id = c.user_id}

\* C19: a (for link requests: authenticated) create of a balance request
\* or link request is answered 404 when the merchant or the user has no
\* row, a create of a link request for existing parties is answered 400
\* AlreadyLinked when the pair has a Link; a create that fails inserts no
\* request row, and the create that succeeds inserts one row, of its pair,
\* with status pending.
C19_CreateRequestRefusals ==
    [][\A p \in Procs :
        /\ Began(p, CreateOps)
           => LET c == calls'[p]
                  known == c.merchant_id \in merchants /\ c.user_id \in users
                  authenticated == c.op = "create_link_request"
                                   => get_current_user(c.tok) = 200 IN
              /\ (authenticated /\ ~known)
                 => c.pc = "done" /\ c.resp.code = 404
              /\ (/\ authenticated /\ known
                  /\ c.op = "create_link_request"
                  /\ LinksOf(c.merchant_id, c.user_id) # {})
                 => FailedWith(c, 400, "AlreadyLinked")
        /\ (/\ calls'[p] # calls[p]
            /\ calls'[p].op \in CreateOps
            /\ calls'[p].pc = "done"
            /\ ~Succeeded(calls'[p]))
           => UNCHANGED <<balance_requests, link_requests>>
        /\ Leaves(p, "create_balance_request", "insert")
           => /\ Succeeded(calls'[p])
              /\ UNCHANGED link_requests
              /\ \E r \in RequestsOf(balance_requests', calls[p]) :
                   /\ r.status = "pending"
                   /\ balance_requests' = balance_requests \cup {r}
                   /\ r \notin balance_requests
        /\ Leaves(p, "create_link_request", "insert")
           => /\ Succeeded(calls'[p])
              /\ UNCHANGED balance_requests
              /\ \E r \in RequestsOf(link_requests', calls[p]) :
                   /\ r.status = "pending"
                   /\ link_requests' = link_requests \cup {r}
                   /\ r \notin link_requests]_vars

\* one create was refused for an unknown party, one for an existing Link,
\* and no request row exists
C19_Witness ==
    /\ \E p \in Procs :
         /\ calls[p].op = "create_balance_request"
         /\ calls[p].user_id = "u9"
         /\ FailedWith(calls[p], 404, "User not found")
    /\ \E p \in Procs :
         /\ calls[p].op = "create_link_request"
         /\ LinksOf(calls[p].merchant_id, calls[p].user_id) # {}
         /\ FailedWith(calls[p], 400, "AlreadyLinked")
    /\ balance_requests = {} /\ link_requests = {}

\* C20: a create of a pay request by the merchant it names is answered 400
\* when the amount is not positive and 404 when the amount is positive and
\* the pair has no Link; a create that fails, for whatever reason, inserts
\* no pay request row and sends no notification.
C20_CreatePayRequestRefusals ==
    [][\A p \in Procs :
        /\ Began(p, {"create_pay_request"})
           => LET c == calls'[p]
                  authorised == /\ pay_auth(c.tok) = 200
                                /\ verify_token(c.tok) = c.merchant_id IN
              /\ (authorised /\ c.amount <= 0)
                 => FailedWith(c, 400, "Amount must be positive")
              /\ (/\ authorised /\ c.amount > 0
                  /\ LinksOf(c.merchant_id, c.user_id) = {})
                 => FailedWith(c, 404, "Link not found")
        /\ (/\ calls'[p] # calls[p]
            /\ calls'[p].op = "create_pay_request"
            /\ calls'[p].pc = "done"
            /\ ~Succeeded(calls'[p]))
           => UNCHANGED <<pay_requests, next_id, sent>>]_vars

\* with the user connected, one create was refused for its amount and one
\* for the missing Link; no row, no notification
C20_Witness ==
    /\ \E p \in Procs :
         /\ calls[p].op = "create_pay_request"
         /\ FailedWith(calls[p], 400, "Amount must be positive")
    /\ \E p \in Procs :
         /\ calls[p].op = "create_pay_request"
         /\ FailedWith(calls[p], 404, "Link not found")
    /\ is_connected(user_connections, "u1")
    /\ pay_requests = {} /\ sent = <<>>

\* the ids a request row can have
RequestIds == 1..MaxCalls

\* the row with this id has status accepted or rejected
Settled(table, id) ==
    \E r \in table : r.id = id /\ r.status \in {"accepted", "rejected"}

Purged(table, id) == \A r \in table : r.id # id

Scheduled(name, id) == [table |-> name, id |-> id] \in background_tasks

BalanceOps ==
    {"add_balance", "process_purchase", "accept_balance_request",
     "accept_pay_request"}

\* the pair a balance operation works on
PairOf(c) ==
    IF c.op \in {"accept_balance_request", "accept_pay_request"}
    THEN <<c.req_data.merchant_id, c.req_data.user_id>>
    ELSE <<c.merchant_id, c.user_id>>

\* the program point from which a balance operation answers with success:
\* the Transaction insert, or the step after it
LastStep(op) ==
    IF op = "accept_balance_request" THEN "update_status" ELSE "insert_txn"

\* C22: a balance-mutating operation (add-balance, purchase, acceptance of a
\* balance request or of a pay request) succeeds only after its one
\* Transaction insert: that step appends exactly one row, for the pair,
\* whose balance_after is the balance the operation wrote to the Link, and
\* no other step of the operation touches the Transactions.
C22_OneTransactionPerMutation ==
    [][\A p \in Procs :
        /\ Began(p, BalanceOps)
           => /\ UNCHANGED transactions
              /\ ~Succeeded(calls'[p])
        /\ (/\ calls[p].op \in BalanceOps
            /\ ~Idle(p)
            /\ calls'[p] # calls[p])
           => /\ Succeeded(calls'[p]) => calls[p].pc = LastStep(calls[p].op)
              /\ IF calls[p].pc = "insert_txn"
                 THEN /\ Len(transactions') = Len(transactions) + 1
                      /\ SubSeq(transactions', 1, Len(transactions))
                           = transactions
                      /\ LET t == transactions'[Len(transactions')] IN
                         /\ <<t.merchant_id, t.user_id>> = PairOf(calls[p])
                         /\ "balance_after" \in DOMAIN t
                         /\ t.balance_after = calls[p].new_balance
                 ELSE UNCHANGED transactions]_vars

\* C23: the Transaction history is append-only: every step keeps each
\* Transaction row that exists, unchanged and at its place.
C23_TransactionsAppendOnly ==
    [][/\ Len(transactions') >= Len(transactions)
       /\ SubSeq(transactions', 1, Len(transactions)) = transactions]_vars

Range(seq) == {seq[i] : i \in DOMAIN seq}

\* the channel collection of an identity, empty when it has no entry
ChannelsOf(conns, id) == IF id \in DOMAIN conns THEN conns[id] ELSE <<>>

\* the messages this step sends
NewMessages == SubSeq(sent', Len(sent) + 1, Len(sent'))

\* the effect of one send of `event` to `id` on the registry of its role,
\* `conns` before and `after` behind the step: every channel of the identity
\* either stays registered and gets the message once, or gets nothing and
\* is removed; nobody else gets a message or loses a channel
SendEffect(conns, after, id, event) ==
    LET before == Range(ChannelsOf(conns, id)) IN
    /\ Len(sent') >= Len(sent)
    /\ SubSeq(sent', 1, Len(sent)) = sent
    /\ \A i \in DOMAIN NewMessages :
         /\ NewMessages[i].to = id
         /\ NewMessages[i].event = event
         /\ NewMessages[i].ws \in before
    /\ \A ws \in before :
         LET got == {i \in DOMAIN NewMessages : NewMessages[i].ws = ws} IN
         IF ws \in Range(ChannelsOf(after, id))
         THEN Cardinality(got) = 1
         ELSE got = {}
    /\ Range(ChannelsOf(after, id)) \subseteq before
    /\ \A k \in (DOMAIN conns \cup DOMAIN after) \ {id} :
         ChannelsOf(after, k) = ChannelsOf(conns, k)

C25_SendToNobody ==
    [][\A p \in Procs :
        /\ (/\ Leaves(p, "create_pay_request", "insert")
            /\ ChannelsOf(user_connections, calls[p].user_id) = <<>>)
           => /\ UNCHANGED <<sent, registry>>
              /\ Succeeded(calls'[p])
        /\ (/\ Leaves(p, "accept_pay_request", "insert_txn")
            /\ ChannelsOf(merchant_connections,
                          calls[p].req_data.merchant_id) = <<>>)
           => /\ UNCHANGED <<sent, registry>>
              /\ Succeeded(calls'[p])]_vars

\* a payment went through while nobody was ever notified
C25_Witness ==
    /\ \E p \in Procs :
         calls[p].op = "accept_pay_request" /\ Succeeded(calls[p])
    /\ sent = <<>>
    /\ user_connections = NoConnections
    /\ merchant_connections = NoConnections

\* C26: no identity of the registry maps to an empty channel collection,
\* so an identity is connected exactly when it has an entry, which is
\* exactly when a channel is registered for it.
C26_NoEmptyEntry ==
    \A conns \in {user_connections, merchant_connections} :
        /\ \A id \in DOMAIN conns : conns[id] # <<>>
        /\ \A id \in {"m1", "u1"} :
             /\ is_connected(conns, id) <=> id \in DOMAIN conns
             /\ is_connected(conns, id)
                  <=> \E ws \in Channels : ws \in Range(ChannelsOf(conns, id))

\* a channel got a message and no channel is registered any more
C26_Witness ==
    /\ sent # <<>>
    /\ user_connections = NoConnections
    /\ merchant_connections = NoConnections

\* the reminders this step inserts
NewReminders == {r \in reminders' : r.id \notin {x.id : x \in reminders}}

\* the link r names is its merchant's, is in debt and is its user's, and the
\* date of r is strictly after now
ValidReminder(r) ==
    /\ \E l \in merchant_user_links :
         /\ l.id = r.link_id
         /\ l.merchant_id = r.merchant_id
         /\ l.balance < 0
         /\ l.user_id = r.user_id
    /\ check_reminder_date(r.reminder_date) = "ok"

C29_NoRollbackOnFailedInsert ==
    [][\A p \in Procs :
         (/\ calls[p].op \in {"add_balance", "process_purchase"}
          /\ Leaves(p, calls[p].op, "insert_txn")
          /\ transactions' = transactions)
         => /\ FailedWith(calls'[p], 500, "Internal")
            /\ UNCHANGED merchant_user_links
            /\ \E l \in merchant_user_links' :
                 l.id = calls[p].link.id /\ l.balance = calls[p].new_balance]_vars

\* a purchase whose Transaction insert failed: the Link is debited, the
\* history holds no debit and the caller was answered 500
C29_Witness ==
    \E p \in Procs, l \in merchant_user_links :
        /\ calls[p].op = "process_purchase"
        /\ FailedWith(calls[p], 500, "Internal")
        /\ l.id = calls[p].link.id
        /\ l.balance = calls[p].new_balance
        /\ l.balance < calls[p].link.balance
        /\ \A i \in 1..Len(transactions) :
             transactions[i].transaction_type # "debit"

\* no settled row of `before` is pending in `after`
StaysSettled(before, after) ==
    \A r \in before :
        r.status \in {"accepted", "rejected"}
        => \A x \in after : x.id = r.id => x.status # "pending"

\* C30: a request whose status is accepted or rejected is not pending in
\* the next state, whatever step is taken and whether or not its purge has
\* run; ids are not handed out twice, so a settled request is never pending
\* again.
C30_SettledNeverPendingAgain ==
    [][/\ StaysSettled(balance_requests, balance_requests')
       /\ StaysSettled(link_requests, link_requests')
       /\ StaysSettled(pay_requests, pay_requests')
       /\ \A k \in DOMAIN next_id : next_id'[k] >= next_id[k]
       /\ \A r \in balance_requests' : r.id < next_id'.balance_requests
       /\ \A r \in link_requests' : r.id < next_id'.link_requests
       /\ \A r \in pay_requests' : r.id < next_id'.pay_requests]_vars

\* a settled request is in the store and a later accept or reject of it was
\* refused
C30_Witness ==
    \E p \in Procs :
        /\ calls[p].op \in SettleOps
        /\ FailedWith(calls[p], 400, "AlreadyProcessed")
        /\ \E r \in TableOf(calls[p].op) :
             /\ r.id = calls[p].request_id
             /\ r.status \in {"accepted", "rejected"}

ListOps ==
    {"get_linked_users", "get_linked_merchants", "get_merchant_link_requests"}

\* the identity in the path of a list call
PathIdentity(c) ==
    IF c.op = "get_linked_merchants" THEN c.user_id ELSE c.merchant_id

\* C31: an authenticated caller of get_linked_users, get_linked_merchants
\* or get_merchant_link_requests whose token subject is not the identity in
\* the path is answered 403 Forbidden.
C31_ForeignListIsForbidden ==
    [][\A p \in Procs :
         (/\ Began(p, ListOps)
          /\ get_current_user(calls'[p].tok) = 200
          /\ verify_token(calls'[p].tok) # PathIdentity(calls'[p]))
         => calls'[p].pc = "done" /\ calls'[p].resp.code = 403]_vars

\* the accept call c has applied the ledger effect of its request: it has
\* written the Link (credit / debit), or inserted the Link (link request)
Applied(c) ==
    IF c.op = "accept_link_request"
    THEN \/ c.pc = "update_status" /\ c.link = NoRow
         \/ FailedWith(c, 200, "Link request accepted")
    ELSE IF c.op = "accept_balance_request"
    THEN c.pc \in {"insert_txn", "update_status"} \/ Succeeded(c)
    ELSE IF c.op = "accept_pay_request"
    THEN c.pc \in {"update_status", "insert_txn"} \/ Succeeded(c)
    ELSE FALSE

\* C32: a request id applies its ledger effect (credit for a balance
\* request, debit for a pay request, Link creation for a link request) at
\* most once: no two accept calls on the same request have both applied it.
C32_EffectAtMostOnce ==
    \A p, q \in Procs :
        (/\ p # q
         /\ calls[p].op \in AcceptOps
         /\ calls[q].op = calls[p].op
         /\ calls[q].request_id = calls[p].request_id)
        => ~(Applied(calls[p]) /\ Applied(calls[q]))

\* C33: a request whose status is rejected has had no effect on a Link or
\* on the Transactions: no accept call on it has applied its effect.
C33_RejectedHasNoEffect ==
    \A p \in Procs :
        (calls[p].op \in AcceptOps /\ Applied(calls[p]))
        => \A r \in TableOf(calls[p].op) :
             r.id = calls[p].request_id => r.status # "rejected"

\* the sum of the amounts of the Transactions of (m, u) whose type is in
\* `types`
RECURSIVE TotalOf(_, _, _, _)
TotalOf(txns, m, u, types) ==
    IF txns = <<>> THEN 0
    ELSE (IF /\ Head(txns).merchant_id = m
             /\ Head(txns).user_id = u
             /\ Head(txns).transaction_type \in types
          THEN Head(txns).amount ELSE 0)
         + TotalOf(Tail(txns), m, u, types)

\* no handler is mid-execution
Quiescent == \A p \in Procs : calls[p].pc \in {"idle", "done"}

\* C34: for every pair, once every call has returned, the debits that went
\* through (purchases and accepted pay requests) do not add up to more than
\* the credits, also when the debits ran concurrently.
C34_DebitsWithinCredits ==
    Quiescent
    => \A m \in merchants, u \in users :
         TotalOf(transactions, m, u, {"debit", "purchase"})
             <= TotalOf(transactions, m, u, {"credit"})

\* C35: when no handler is mid-execution, the balance of the one Link of a
\* pair (made by /link/create with balance 0, never delinked) is the sum of
\* its credit Transactions minus the sum of its debit and purchase
\* Transactions.
C35_BalanceIsSumOfHistory ==
    Quiescent
    => \A l \in merchant_user_links :
         LinksOf(l.merchant_id, l.user_id) = {l}
         => l.balance =
             TotalOf(transactions, l.merchant_id, l.user_id, {"credit"})
             - TotalOf(transactions, l.merchant_id, l.user_id,
                       {"debit", "purchase"})

\* C36: no Link ever holds a balance below 0, whatever the interleaving of
\* link create, add-balance, purchase, balance-request accept and
\* pay-request accept; so no Link meets the balance < 0 that create_reminder
\* asks for.
C36_NoNegativeBalance ==
    \A l \in merchant_user_links : l.balance >= 0

\* two debits have gone through on one read of the balance, and the Link is
\* at 0
C36_Witness ==
    /\ Quiescent
    /\ \E l \in merchant_user_links :
         /\ l.balance = 0
         /\ TotalOf(transactions, l.merchant_id, l.user_id,
                    {"debit", "purchase"})
              > TotalOf(transactions, l.merchant_id, l.user_id, {"credit"})

\* C37: the PIN credential of every Link row is the one-way hash of a PIN,
\* never the plain text, whichever operation made the Link.
C37_LinkPinIsHashed ==
    \A l \in merchant_user_links : l.pin = hash_password(l.pin.secret)

\* this step is the balance write of the call on slot p
WritesBalance(p) ==
    \/ Leaves(p, "add_balance", "update")
    \/ Leaves(p, "process_purchase", "update")
    \/ Leaves(p, "accept_balance_request", "update_link")
    \/ Leaves(p, "accept_pay_request", "update_link")

\* the rows the balance write of call c is addressed to
Addressed(c) ==
    IF c.op = "accept_pay_request"
    THEN LinksOf(c.req_data.merchant_id, c.req_data.user_id)
    ELSE {l \in merchant_user_links : l.id = c.link.id}

\* C38: the balance write of a mutation changes no Link but the one the
\* mutation has read, so a Link made after a delink is never given a balance
\* computed from the old Link; and a mutation whose balance write reaches no
\* Link ends without success and records no Transaction.
C38_NoStaleWrite ==
    [][\A p \in Procs :
         WritesBalance(p)
         => /\ \A l \in merchant_user_links, l2 \in merchant_user_links' :
                 (l2.id = l.id /\ l2.balance # l.balance)
                 => l.id = calls[p].link.id
            /\ Addressed(calls[p]) = {}
                 => /\ calls'[p].pc = "done"
                    /\ ~Succeeded(calls'[p])]_vars

\* the number of times message n was sent on channel ws
TimesSent(log, ws, n) ==
    Cardinality({k \in DOMAIN log :
                   /\ log[k].ws = ws
                   /\ log[k].event = "message"
                   /\ log[k].id = n})

\* C39: when send_to_user / send_to_merchant returns, every channel of the
\* identity that is registered (no client connects during the send, so it
\* was registered for the whole send) has been sent the message exactly
\* once, whatever was disconnected or evicted in between.
C39_EveryStayingChannelOnce ==
    [][\A p \in Procs :
         (/\ calls[p].op \in {"send_to_user", "send_to_merchant"}
          /\ Leaves(p, calls[p].op, "loop")
          /\ calls'[p].pc = "done")
         => LET conns == IF calls[p].op = "send_to_user"
                         THEN user_connections' ELSE merchant_connections'
                id == IF calls[p].op = "send_to_user"
                      THEN calls[p].user_id ELSE calls[p].merchant_id IN
            \A ws \in Range(ChannelsOf(conns, id)) :
                TimesSent(sent', ws, calls[p].request_id) = 1]_vars

\* C40: a verify call succeeds only with the stored code of an OTP that has
\* fewer than three wrong attempts, and removes the OTP; a wrong code adds
\* one attempt; at three attempts every verify call fails, with the right
\* code too, and removes the OTP; the attempts of a stored OTP go down only
\* when a new OTP is sent.
C40_ThreeStrikesAndSingleUse ==
    [][/\ \A p \in Procs :
            Began(p, {"verify_otp"})
            => LET phone == calls'[p].user_id
                   otp == calls'[p].pin IN
               /\ Succeeded(calls'[p])
                    => /\ phone \in DOMAIN otp_storage
                       /\ otp_storage[phone].otp = otp
                       /\ otp_storage[phone].attempts < 3
                       /\ phone \notin DOMAIN otp_storage'
               /\ phone \in DOMAIN otp_storage
                    => /\ otp_storage[phone].attempts >= 3
                            => /\ ~Succeeded(calls'[p])
                               /\ phone \notin DOMAIN otp_storage'
                       /\ (/\ otp_storage[phone].attempts < 3
                           /\ ~otp_storage[phone].expired
                           /\ otp_storage[phone].otp # otp)
                            => /\ ~Succeeded(calls'[p])
                               /\ otp_storage' =
                                      [otp_storage EXCEPT
                                         ![phone].attempts = @ + 1]
       /\ \A phone \in DOMAIN otp_storage \cap DOMAIN otp_storage' :
            otp_storage'[phone].attempts < otp_storage[phone].attempts
            => /\ ncalls' = ncalls + 1
               /\ \E p \in Procs :
                    /\ calls'[p].op \in {"send_otp", "resend_otp"}
                    /\ calls'[p].user_id = phone
                    /\ Succeeded(calls'[p])]_vars

\* after three wrong codes the right code was refused
C40_Witness ==
    \E p \in Procs :
        /\ calls[p].op = "verify_otp"
        /\ FailedWith(calls[p], 400, "Too many failed attempts")
        /\ calls[p].req_data.otp = calls[p].pin
        /\ calls[p].user_id \notin DOMAIN otp_storage

====
